---- MODULE Spec2Model ----
(***************************************************************************)
(* A model of gdbus_ext.py: the DBusTemplate class decorator (the binding  *)
(* compiler), the DBusProperty descriptor, register_object, the three      *)
(* transport closures (on_method_call, on_get_property, on_set_property),  *)
(* the signal proxy and properties_changed.                                *)
(*                                                                         *)
(* Python's None is the string "None"; a dict is a function whose DOMAIN   *)
(* is its key set; a GLib.Variant is a record of a signature and a value;  *)
(* a raised exception is a record naming the exception type and message.   *)
(***************************************************************************)
EXTENDS Integers, Sequences, FiniteSets, TLC

VARIABLES
    declarations,   \* the decorator applications of the class body (body) and
                    \* how many of them have been evaluated (pc), where the
                    \* model follows its evaluation; empty where the class body
                    \* is given evaluated
    xml,            \* the parsed introspection document: a list of interfaces
    cls,            \* the handler stand-ins the class body declared, in order
    cls_dict,       \* cls.__dict__: the class attributes as the decorator rewrites them
    decorated,      \* "pending", "bound" (tables stored) or "failed" (decorator raised)
    bind_error,     \* the exception DBusTemplate.__call__ raised, or NoError
    def_interfaces, \* cls.__giodbustemplate__interfaces__
    def_methods,    \* cls.__giodbustemplate__methods__
    def_properties, \* cls.__giodbustemplate__properties__
    registration,   \* per instance: __giodbustemplate__connection__ and __path__
    owned_names,    \* the bus names requested, per connection
    exported,       \* the transport's table of registered (connection, path, interface)
    pstate,         \* per instance: the value behind each property getter
    instances,      \* the instances of the class the program has constructed
    failed_calls,   \* history: the instances a method handler has raised on
    app,            \* the PlayerApp: its track list and its current track
    history,        \* history: the calls that set or announce properties, in the
                    \* order they ran, and the events broadcast, in the order
                    \* they were sent; kept where history.on is set
    last            \* the operation that has just run, until control returns to
                    \* the main loop: its inputs, outcome and emissions

vars == <<declarations, xml, cls, cls_dict, decorated, bind_error, def_interfaces, def_methods,
          def_properties, registration, owned_names, exported, pstate, instances,
          failed_calls, history, app, last>>

-----------------------------------------------------------------------------
(* Bounds of the model.                                                    *)

\* most stand-ins a class body declares (binding specification)
MaxStandins == 2
\* most members an introspection document declares (binding specification)
MaxMembers == 2
\* most property names handed to one properties_changed call
MaxNames == 2
\* property values and handler results range over 0..MaxValue
MaxValue == 1
\* most arguments a signal emitter is called with, most values a handler returns
MaxArgs == 2
\* longest name of a decorated function
MaxNameLen == 5
\* longest run of calls whose history is kept
MaxCalls == 2

None == "None"

EmptyDict == [k \in {} |-> None]

\* d[k] = v on a Python dict
Put(d, k, v) == [x \in (DOMAIN d) \cup {k} |-> IF x = k THEN v ELSE d[x]]

RECURSIVE SeqOfSet(_)
\* a list holding the elements of a finite set once each
SeqOfSet(S) == IF S = {} THEN << >>
               ELSE LET x == CHOOSE y \in S : TRUE IN <<x>> \o SeqOfSet(S \ {x})

Range(s) == {s[i] : i \in DOMAIN s}

\* sequences over S of length at most n
SeqsUpTo(S, n) == UNION {[1..k -> S] : k \in 0..n}

-----------------------------------------------------------------------------
(* Exceptions.                                                             *)

NoError == [exc |-> None, msg |-> None, type |-> None, name |-> None, interface |-> None]

Raise(exc, msg, type, name, interface) ==
    [exc |-> exc, msg |-> msg, type |-> type, name |-> name, interface |-> interface]

-----------------------------------------------------------------------------
(* The schema catalog (DBusTemplate.__call__, "Collect interface infos").  *)

\* the name -> info dict of one member list of one interface
InfoDict(members) == [n \in {m.name : m \in Range(members)} |->
                        CHOOSE m \in Range(members) : m.name = n]

infos_methods(x) == [i \in {f.name : f \in Range(x)} |->
                        InfoDict((CHOOSE f \in Range(x) : f.name = i).methods)]
infos_signals(x) == [i \in {f.name : f \in Range(x)} |->
                        InfoDict((CHOOSE f \in Range(x) : f.name = i).signals)]
infos_properties(x) == [i \in {f.name : f \in Range(x)} |->
                        InfoDict((CHOOSE f \in Range(x) : f.name = i).properties)]

_NotUnique == None

RECURSIVE UniqueOfMembers_first(_, _, _)
\* a variant of the inner loop in which the first interface to declare a name
\* keeps it when the name occurs again
UniqueOfMembers_first(members, interface_name, unique) ==
    IF members = << >> THEN unique
    ELSE LET n == Head(members).name
             u == IF n \notin DOMAIN unique THEN Put(unique, n, interface_name)
                  ELSE unique
         IN UniqueOfMembers_first(Tail(members), interface_name, u)

RECURSIVE UniqueOfMembers_toggled(_, _, _)
\* a variant of the inner loop in which an occurrence after the name was
\* marked not unique makes the interface at hand its owner
UniqueOfMembers_toggled(members, interface_name, unique) ==
    IF members = << >> THEN unique
    ELSE LET n == Head(members).name
             u == IF n \notin DOMAIN unique \/ unique[n] = _NotUnique
                  THEN Put(unique, n, interface_name)
                  ELSE Put(unique, n, _NotUnique)
         IN UniqueOfMembers_toggled(Tail(members), interface_name, u)

RECURSIVE UniqueOfMembers(_, _, _)
\* the inner loop: the first interface to declare a name owns it, a later
\* occurrence marks it not unique
UniqueOfMembers(members, interface_name, unique) ==
    IF members = << >> THEN unique
    ELSE LET n == Head(members).name
             u == IF n \notin DOMAIN unique THEN Put(unique, n, interface_name)
                  ELSE Put(unique, n, _NotUnique)
         IN UniqueOfMembers(Tail(members), interface_name, u)

RECURSIVE UniqueOf(_, _, _)
\* the outer loop over the interfaces, for the member list kind selects
UniqueOf(x, kind, unique) ==
    IF x = << >> THEN unique
    ELSE LET f == Head(x)
             members == CASE kind = "method" -> f.methods
                          [] kind = "signal" -> f.signals
                          [] OTHER -> f.properties
         IN UniqueOf(Tail(x), kind, UniqueOfMembers(members, f.name, unique))

unique_methods(x) == UniqueOf(x, "method", EmptyDict)
unique_signals(x) == UniqueOf(x, "signal", EmptyDict)
unique_properties(x) == UniqueOf(x, "property", EmptyDict)

collect_unassigned(infos) ==
    UNION {{<<intf_name, obj_name>> : obj_name \in DOMAIN infos[intf_name]} :
              intf_name \in DOMAIN infos}

-----------------------------------------------------------------------------
(* The handler registry (process_standin and the scan of cls.__dict__).    *)

\* what process_standin leaves behind: the exception it raised (or NoError),
\* its return value, and the two arguments it mutates
StandinResult(raised, interface_name, unassigned, runtime_def) ==
    [raised |-> raised, interface_name |-> interface_name,
     unassigned |-> unassigned, runtime_def |-> runtime_def]

\* a variant of process_standin that starts the interface's dict afresh on every store
process_standin_reset(standin, unassigned, unique, infos, runtime_def, has_runtime_def) ==
    LET fail(msg, interface) ==
            StandinResult(Raise("TypeError", msg, standin.type, standin.name, interface),
                          None, unassigned, runtime_def)
        resolve(interface_name) ==
            IF interface_name \notin DOMAIN infos
            THEN fail("interface not defined", interface_name)
            ELSE IF standin.name \notin DOMAIN infos[interface_name]
            THEN fail("not defined for interface", interface_name)
            ELSE LET ident == <<interface_name, standin.name>> IN
                 IF ident \notin unassigned
                 THEN fail("has a handler method but is either not in the XML or there are multiple handlers", None)
                 ELSE LET info == infos[interface_name][standin.name]
                          inner == EmptyDict
                          \* (info, standin) for a property, (info, standin.func)
                          \* for a method: either way the attribute's identity
                          entry == [info |-> info, handler |-> standin.func]
                          stored == IF has_runtime_def
                                    THEN Put(runtime_def, interface_name,
                                             Put(inner, standin.name, entry))
                                    ELSE runtime_def
                      IN StandinResult(NoError, interface_name,
                                       unassigned \ {ident}, stored)
    IN IF standin.interface # None
       THEN resolve(standin.interface)
       ELSE IF standin.name \notin DOMAIN unique
       THEN fail("not defined in any interface", None)
       ELSE IF unique[standin.name] = _NotUnique
       THEN fail("defined in multiple interfaces", None)
       ELSE resolve(unique[standin.name])

\* a variant of process_standin without the check that the member is still unassigned
process_standin_unchecked(standin, unassigned, unique, infos, runtime_def, has_runtime_def) ==
    LET fail(msg, interface) ==
            StandinResult(Raise("TypeError", msg, standin.type, standin.name, interface),
                          None, unassigned, runtime_def)
        resolve(interface_name) ==
            IF interface_name \notin DOMAIN infos
            THEN fail("interface not defined", interface_name)
            ELSE IF standin.name \notin DOMAIN infos[interface_name]
            THEN fail("not defined for interface", interface_name)
            ELSE LET ident == <<interface_name, standin.name>> IN
                 IF FALSE
                 THEN fail("has a handler method but is either not in the XML or there are multiple handlers", None)
                 ELSE LET info == infos[interface_name][standin.name]
                          inner == IF interface_name \in DOMAIN runtime_def
                                   THEN runtime_def[interface_name] ELSE EmptyDict
                          \* (info, standin) for a property, (info, standin.func)
                          \* for a method: either way the attribute's identity
                          entry == [info |-> info, handler |-> standin.func]
                          stored == IF has_runtime_def
                                    THEN Put(runtime_def, interface_name,
                                             Put(inner, standin.name, entry))
                                    ELSE runtime_def
                      IN StandinResult(NoError, interface_name,
                                       unassigned \ {ident}, stored)
    IN IF standin.interface # None
       THEN resolve(standin.interface)
       ELSE IF standin.name \notin DOMAIN unique
       THEN fail("not defined in any interface", None)
       ELSE IF unique[standin.name] = _NotUnique
       THEN fail("defined in multiple interfaces", None)
       ELSE resolve(unique[standin.name])

\* a variant of process_standin that looks the member name up in the names of
\* all interfaces instead of the resolved one
process_standin_anywhere(standin, unassigned, unique, infos, runtime_def, has_runtime_def) ==
    LET fail(msg, interface) ==
            StandinResult(Raise("TypeError", msg, standin.type, standin.name, interface),
                          None, unassigned, runtime_def)
        resolve(interface_name) ==
            IF interface_name \notin DOMAIN infos
            THEN fail("interface not defined", interface_name)
            ELSE IF standin.name \notin DOMAIN unique
            THEN fail("not defined for interface", interface_name)
            ELSE LET ident == <<interface_name, standin.name>> IN
                 IF ident \notin unassigned
                 THEN fail("has a handler method but is either not in the XML or there are multiple handlers", None)
                 ELSE LET info == infos[interface_name][standin.name]
                          inner == IF interface_name \in DOMAIN runtime_def
                                   THEN runtime_def[interface_name] ELSE EmptyDict
                          \* (info, standin) for a property, (info, standin.func)
                          \* for a method: either way the attribute's identity
                          entry == [info |-> info, handler |-> standin.func]
                          stored == IF has_runtime_def
                                    THEN Put(runtime_def, interface_name,
                                             Put(inner, standin.name, entry))
                                    ELSE runtime_def
                      IN StandinResult(NoError, interface_name,
                                       unassigned \ {ident}, stored)
    IN IF standin.interface # None
       THEN resolve(standin.interface)
       ELSE IF standin.name \notin DOMAIN unique
       THEN fail("not defined in any interface", None)
       ELSE IF unique[standin.name] = _NotUnique
       THEN fail("defined in multiple interfaces", None)
       ELSE resolve(unique[standin.name])

\* has_runtime_def is FALSE where the code passes runtime_def=None (signals)
process_standin(standin, unassigned, unique, infos, runtime_def, has_runtime_def) ==
    LET fail(msg, interface) ==
            StandinResult(Raise("TypeError", msg, standin.type, standin.name, interface),
                          None, unassigned, runtime_def)
        resolve(interface_name) ==
            IF interface_name \notin DOMAIN infos
            THEN fail("interface not defined", interface_name)
            ELSE IF standin.name \notin DOMAIN infos[interface_name]
            THEN fail("not defined for interface", interface_name)
            ELSE LET ident == <<interface_name, standin.name>> IN
                 IF ident \notin unassigned
                 THEN fail("has a handler method but is either not in the XML or there are multiple handlers", None)
                 ELSE LET info == infos[interface_name][standin.name]
                          inner == IF interface_name \in DOMAIN runtime_def
                                   THEN runtime_def[interface_name] ELSE EmptyDict
                          \* (info, standin) for a property, (info, standin.func)
                          \* for a method: either way the attribute's identity
                          entry == [info |-> info, handler |-> standin.func]
                          stored == IF has_runtime_def
                                    THEN Put(runtime_def, interface_name,
                                             Put(inner, standin.name, entry))
                                    ELSE runtime_def
                      IN StandinResult(NoError, interface_name,
                                       unassigned \ {ident}, stored)
    IN IF standin.interface # None
       THEN resolve(standin.interface)
       ELSE IF standin.name \notin DOMAIN unique
       THEN fail("not defined in any interface", None)
       ELSE IF unique[standin.name] = _NotUnique
       THEN fail("defined in multiple interfaces", None)
       ELSE resolve(unique[standin.name])

\* the locals of DBusTemplate.__call__ while it walks cls.__dict__
ScanState(um, us, up, dm, dp, d, raised) ==
    [unassigned_methods |-> um, unassigned_signals |-> us, unassigned_properties |-> up,
     def_methods |-> dm, def_properties |-> dp, cls_dict |-> d, raised |-> raised]

\* one iteration of "for attr_name, member in cls.__dict__.items()"
ScanMember(x, st, i) ==
    LET member == st.cls_dict[i].standin IN
    IF member.type = "method" THEN
        LET r == process_standin(member, st.unassigned_methods, unique_methods(x),
                                 infos_methods(x), st.def_methods, TRUE)
        IN IF r.raised # NoError THEN [st EXCEPT !.raised = r.raised]
           ELSE [st EXCEPT !.unassigned_methods = r.unassigned,
                           !.def_methods = r.runtime_def,
                           !.cls_dict[i].slot = "function"]
    ELSE IF member.type = "signal" THEN
        LET r == process_standin(member, st.unassigned_signals, unique_signals(x),
                                 infos_signals(x), EmptyDict, FALSE)
        IN IF r.raised # NoError THEN [st EXCEPT !.raised = r.raised]
           ELSE [st EXCEPT !.unassigned_signals = r.unassigned,
                           !.cls_dict[i].slot = "partialmethod",
                           !.cls_dict[i].signal_info =
                                infos_signals(x)[r.interface_name][member.name],
                           !.cls_dict[i].signal_interface = r.interface_name]
    ELSE
        LET r == process_standin(member, st.unassigned_properties, unique_properties(x),
                                 infos_properties(x), st.def_properties, TRUE)
        IN IF r.raised # NoError THEN [st EXCEPT !.raised = r.raised]
           ELSE [st EXCEPT !.unassigned_properties = r.unassigned,
                           !.def_properties = r.runtime_def,
                           !.cls_dict[i].standin.interface = r.interface_name]

RECURSIVE ScanFrom(_, _, _)
\* the loop; an exception leaves it at once
ScanFrom(x, st, i) ==
    IF i > Len(st.cls_dict) \/ st.raised # NoError THEN st
    ELSE ScanFrom(x, ScanMember(x, st, i), i + 1)

Scan(x, d) ==
    ScanFrom(x, ScanState(collect_unassigned(infos_methods(x)),
                          collect_unassigned(infos_signals(x)),
                          collect_unassigned(infos_properties(x)),
                          EmptyDict, EmptyDict, d, NoError), 1)

\* a variant of MissingHandler that unpacks the pair as (name, interface)
MissingHandler_swapped(st) ==
    IF st.unassigned_methods # {}
    THEN {Raise("TypeError", "Missing handler", "method", p[1], p[2]) :
             p \in st.unassigned_methods}
    ELSE IF st.unassigned_signals # {}
    THEN {Raise("TypeError", "Missing handler", "signal", p[1], p[2]) :
             p \in st.unassigned_signals}
    ELSE IF st.unassigned_properties # {}
    THEN {Raise("TypeError", "Missing handler", "property", p[1], p[2]) :
             p \in st.unassigned_properties}
    ELSE {}


\* the completion check: the exceptions it can raise (next(iter(set)) takes
\* whichever element the set yields first), or none when everything is bound
MissingHandler(st) ==
    IF st.unassigned_methods # {}
    THEN {Raise("TypeError", "Missing handler", "method", p[2], p[1]) :
             p \in st.unassigned_methods}
    ELSE IF st.unassigned_signals # {}
    THEN {Raise("TypeError", "Missing handler", "signal", p[2], p[1]) :
             p \in st.unassigned_signals}
    ELSE IF st.unassigned_properties # {}
    THEN {Raise("TypeError", "Missing handler", "property", p[2], p[1]) :
             p \in st.unassigned_properties}
    ELSE {}


-----------------------------------------------------------------------------
(* Inputs: introspection documents and class bodies.                       *)

\* D-Bus type signatures; every value of the model is an integer ("i")
MethodInfo(n) == [name |-> n,
                  out_args |-> CASE n = "A" -> <<"i">>
                                 [] n = "B" -> << >>
                                 [] OTHER -> <<"i", "i">>]
\* signal T declares two arguments of different types, every other signal one
SignalInfo(n) == [name |-> n, args |-> IF n = "T" THEN <<"i", "s">> ELSE <<"i">>]
PropertyInfo(n) == [name |-> n, signature |-> "i"]

\* the document that declares the members in decl, a set of
\* <<interface, kind, name>>, for the interfaces listed in order
XmlOf(interfaces, decl) ==
    [k \in DOMAIN interfaces |->
        LET i == interfaces[k]
            named(kind) == SeqOfSet({d[3] : d \in {e \in decl : e[1] = i /\ e[2] = kind}})
        IN [name |-> i,
            methods |-> [j \in DOMAIN named("method") |-> MethodInfo(named("method")[j])],
            signals |-> [j \in DOMAIN named("signal") |-> SignalInfo(named("signal")[j])],
            properties |-> [j \in DOMAIN named("property") |->
                               PropertyInfo(named("property")[j])]]]

\* what Method(...)(func), Signal(...)(func) and Property(...)(func) construct;
\* None where a name is expected
NoName == <<None>>

\* func is filled in with the attribute's position in the class body;
\* has_getter says that self.func is a function and not None; attr is the
\* name of the class attribute that holds the object and obj tells objects
\* apart, so that two attributes may hold one object
DBusHandlerStandIn(typ, name, interface) ==
    [type |-> typ, name |-> name, interface |-> interface, func |-> 0,
     emit_changed |-> FALSE, emit_with_value |-> FALSE, has_setter |-> FALSE,
     has_getter |-> TRUE, attr |-> NoName, obj |-> 0]

DBusProperty(name, interface, emit_changed, emit_with_value, has_setter) ==
    [type |-> "property", name |-> name, interface |-> interface, func |-> 0,
     emit_changed |-> emit_changed, emit_with_value |-> emit_with_value,
     has_setter |-> has_setter, has_getter |-> TRUE, attr |-> NoName, obj |-> 0]

\* DBusProperty(name, None, interface, ..., setter_func=fset): the constructor
\* called with a setter and without a getter function
DBusPropertySetterOnly(name, interface, emit_changed, emit_with_value) ==
    [DBusProperty(name, interface, emit_changed, emit_with_value, TRUE)
        EXCEPT !.has_getter = FALSE]

NoInfo == [name |-> None, args |-> << >>]

-----------------------------------------------------------------------------
(* Names derived from the decorated function. A function name is the       *)
(* sequence of its characters.                                             *)

NameChars == {"g", "e", "t", "_", "a"}

\* str.upper and str.lower on one character
upper(c) == CASE c = "g" -> "G" [] c = "e" -> "E" [] c = "t" -> "T"
              [] c = "a" -> "A" [] OTHER -> c
lower(c) == CASE c = "G" -> "g" [] c = "E" -> "e" [] c = "T" -> "t"
              [] c = "A" -> "a" [] OTHER -> c

\* str.capitalize: the first character upper case, the others lower case
capitalize(word) ==
    [k \in DOMAIN word |-> IF k = 1 THEN upper(word[k]) ELSE lower(word[k])]

RECURSIVE split(_, _)
\* str.split(sep): the pieces between the separators, empty pieces kept
split(input_str, sep) ==
    IF input_str = << >> THEN << << >> >>
    ELSE LET rest == split(Tail(input_str), sep)
         IN IF Head(input_str) = sep
            THEN << << >> >> \o rest
            ELSE << <<Head(input_str)>> \o Head(rest) >> \o Tail(rest)

RECURSIVE join(_)
\* "".join(words)
join(words) == IF words = << >> THEN << >> ELSE Head(words) \o join(Tail(words))

_capitalize_parts(words) ==
    [k \in DOMAIN words |->
        IF Len(words[k]) < 2 THEN capitalize(words[k])
        ELSE capitalize(<<words[k][1]>>) \o Tail(words[k])]

to_pascal_case(input_str) == join(_capitalize_parts(split(input_str, "_")))

\* str.startswith
startswith(str, prefix) ==
    Len(str) >= Len(prefix) /\ SubSeq(str, 1, Len(prefix)) = prefix

\* the decorated object: a function with its __name__, or a callable that
\* has no __name__ (func_name = NoName)
hasattr__name__(func_name) == func_name # NoName

\* generate_name: a name, or the NameError raised
generate_name(maybe_name, func_name, remove_prefix) ==
    IF maybe_name # NoName THEN [raised |-> NoError, name |-> maybe_name]
    ELSE IF hasattr__name__(func_name)
    THEN LET basename == IF remove_prefix # NoName /\ startswith(func_name, remove_prefix)
                         THEN SubSeq(func_name, Len(remove_prefix) + 1, Len(func_name))
                         ELSE func_name
         IN [raised |-> NoError, name |-> to_pascal_case(basename)]
    ELSE [raised |-> Raise("NameError",
                           "the method decorated has no name and no name was given",
                           None, None, None),
          name |-> NoName]

\* Method(name, interface)(func)
Method__call__(self, func_name) ==
    LET n == generate_name(self.name, func_name, NoName)
    IN [raised |-> n.raised,
        standin |-> DBusHandlerStandIn("method", n.name, self.interface)]

\* Signal(name, interface)(func)
Signal__call__(self, func_name) ==
    LET n == generate_name(self.name, func_name, NoName)
    IN [raised |-> n.raised,
        standin |-> DBusHandlerStandIn("signal", n.name, self.interface)]

\* Property(name, interface, emit_changed=..., emit_with_value=...)(func)
Property__call__(self, func_name) ==
    LET n == generate_name(self.name, func_name, NoName)
    IN [raised |-> n.raised,
        standin |-> DBusProperty(n.name, self.interface, self.emit_changed,
                                 self.emit_with_value, FALSE)]

\* one decorator application of a class body: the decorator object and the
\* name of the function it is applied to
Decorator(decorator, name, interface, emit_changed, emit_with_value, func_name) ==
    [decorator |-> decorator, name |-> name, interface |-> interface,
     emit_changed |-> emit_changed, emit_with_value |-> emit_with_value,
     func_name |-> func_name, target |-> NoName]

\* @target.setter or @target.getter applied to a function: target is the name
\* the descriptor is looked up by
Accessor(decorator, target, func_name) ==
    [Decorator(decorator, NoName, None, TRUE, TRUE, func_name) EXCEPT !.target = target]

NoDeclarations == [body |-> << >>, pc |-> 0]

\* the class body has been evaluated and nothing was raised in it
ClassBodyDone ==
    declarations.pc = Len(declarations.body) /\ (declarations.pc > 0 => last.raised = NoError)

ExplicitName == <<"X">>

Decorations ==
    {Decorator(d, n, None, TRUE, TRUE, f) :
        d \in {"Method", "Signal", "Property"},
        n \in {NoName, ExplicitName},
        f \in SeqsUpTo(NameChars, MaxNameLen) \cup {NoName}}

\* the class body: attribute i holds stand-in i
ClassBody(standins) ==
    [i \in DOMAIN standins |-> [standins[i] EXCEPT !.func = i, !.obj = i]]

\* DBusProperty.setter(fset): stores the setter and returns the descriptor
DBusProperty_setter(self) == [self EXCEPT !.has_setter = TRUE]

\* DBusProperty.getter(fget): stores the getter and returns the descriptor
DBusProperty_getter(self) == [self EXCEPT !.has_getter = TRUE]

ClassDict(body) ==
    [i \in DOMAIN body |-> [slot |-> "standin", standin |-> body[i],
                            signal_info |-> NoInfo, signal_interface |-> None]]

BindInterfaces == <<"I1", "I2">>
ExplicitInterfaces == {None, "I1", "I2", "I3"}
BindNames == [method |-> {"A", "B"}, signal |-> {"S"}, property |-> {"P"}]
Kinds == {"method", "signal", "property"}

BindSlots == {d \in Range(BindInterfaces) \X Kinds \X {"A", "B", "S", "P"} :
                 d[3] \in BindNames[d[2]]}

\* the stand-ins a class body is drawn from: a method handler with every
\* interface argument, a signal emitter with none, a property with two, and
\* a property constructed with a setter only
BindStandins ==
    {DBusHandlerStandIn("method", n, i) : n \in BindNames["method"], i \in ExplicitInterfaces}
    \cup {DBusHandlerStandIn("signal", n, i) : n \in BindNames["signal"], i \in {None}}
    \cup {DBusProperty(n, i, TRUE, TRUE, FALSE) : n \in BindNames["property"], i \in {None, "I2"}}
    \cup {DBusPropertySetterOnly(n, None, TRUE, TRUE) : n \in BindNames["property"]}

-----------------------------------------------------------------------------
(* Runtime state.                                                          *)

Objs == {"o1", "o2"}
Connections == {"c1", "c2"}
Paths == {"/p1", "/p2"}
Values == 0..MaxValue
NoValue == -1

\* an instance without __giodbustemplate__connection__ and __path__
Unregistered == [connection |-> None, path |-> None]

NoVariant == [signature |-> None, value |-> NoValue]
\* GLib.Variant(signature, value) and Variant.unpack()
Variant(signature, value) == [signature |-> signature, value |-> value]
unpack(variant) == variant.value

NoReply == [kind |-> None, interface |-> None, message |-> None, values |-> << >>]

\* what a user-written handler did when called: raised, or returned None,
\* one value, or a tuple
Raised == [kind |-> "raise", vals |-> << >>]
ReturnNone == [kind |-> "none", vals |-> << >>]
ReturnValue(v) == [kind |-> "value", vals |-> <<v>>]
ReturnTuple(t) == [kind |-> "tuple", vals |-> t]
NotCalled == [kind |-> None, vals |-> << >>]

\* the inputs of an operation; each operation fills in the ones it takes
NoInputs == [obj |-> None, connection |-> None, path |-> None, interface |-> None,
             member |-> None, value |-> NoValue, names |-> << >>, arguments |-> << >>,
             handler |-> NotCalled, setter |-> None, gettrace |-> None]

\* the record of one operation: its inputs, the exception that left it
\* (raised), what it returned (result), the reply sent on the invocation and
\* the signals it broadcast, in order
Op(op, inputs, raised, result, reply, events) ==
    [op |-> op, inputs |-> inputs, raised |-> raised, result |-> result,
     reply |-> reply, events |-> events]

NoOp == Op(None, NoInputs, NoError, NoVariant, NoReply, << >>)

\* the history of a run: not kept, or kept and empty
NoHistory == [on |-> FALSE, calls |-> << >>, sent |-> << >>]
EmptyHistory == [on |-> TRUE, calls |-> << >>, sent |-> << >>]

\* the call that has run joins the calls, the events it broadcast the events
Recorded(h, op) ==
    IF h.on
    THEN [h EXCEPT !.calls = Append(@, [op |-> op.op, inputs |-> op.inputs,
                                        raised |-> op.raised]),
                   !.sent = @ \o op.events]
    ELSE h

-----------------------------------------------------------------------------
(* Outbound: emit_signal, emit_properties_changed, the signal proxy.       *)

Event(connection, path, interface, signal, parameters) ==
    [connection |-> connection, path |-> path, interface |-> interface,
     signal |-> signal, parameters |-> parameters]

\* the body of a user signal (values) or of PropertiesChanged (the rest)
Parameters(interface, changed, invalidated, values) ==
    [interface |-> interface, changed |-> changed, invalidated |-> invalidated,
     values |-> values]

\* what a call leaves behind: the exception that ended it and its broadcasts
Emitted(raised, events) == [raised |-> raised, events |-> events]

AttributeError(name) == Raise("AttributeError", "object has no attribute", None, name, None)

\* a variant of emit_signal that passes the signal name and the interface name
\* to the connection in each other's place
emit_signal_swapped(reg, signal_name, interface_name, path, parameters) ==
    IF reg.connection = None
    THEN Emitted(AttributeError("__giodbustemplate__connection__"), << >>)
    ELSE Emitted(NoError, <<Event(reg.connection, path, signal_name,
                                  interface_name, parameters)>>)

\* a variant of emit_signal that sends every signal at the path /p1
emit_signal_one_path(reg, signal_name, interface_name, path, parameters) ==
    IF reg.connection = None
    THEN Emitted(AttributeError("__giodbustemplate__connection__"), << >>)
    ELSE Emitted(NoError, <<Event(reg.connection, "/p1", interface_name,
                                  signal_name, parameters)>>)

\* reg is the instance's registration; reading an attribute register_object
\* has not set raises AttributeError
emit_signal(reg, signal_name, interface_name, path, parameters) ==
    IF reg.connection = None
    THEN Emitted(AttributeError("__giodbustemplate__connection__"), << >>)
    ELSE Emitted(NoError, <<Event(reg.connection, path, interface_name,
                                  signal_name, parameters)>>)

\* a variant of emit_properties_changed that sends the signal a second time
emit_properties_changed_repeated(reg, interface, changed_properties, invalidated_properties) ==
    IF reg.path = None
    THEN Emitted(AttributeError("__giodbustemplate__path__"), << >>)
    ELSE LET e == emit_signal(reg, "PropertiesChanged", "org.freedesktop.DBus.Properties",
                              reg.path,
                              Parameters(interface, changed_properties,
                                         invalidated_properties, << >>))
         IN Emitted(e.raised, e.events \o e.events)

\* a variant of emit_properties_changed that hands the signal to the transport
\* with whatever connection and path the instance has, None included
emit_properties_changed_unaddressed(reg, interface, changed_properties, invalidated_properties) ==
    Emitted(NoError, <<Event(reg.connection, reg.path, "org.freedesktop.DBus.Properties",
                             "PropertiesChanged",
                             Parameters(interface, changed_properties,
                                        invalidated_properties, << >>))>>)

emit_properties_changed(reg, interface, changed_properties, invalidated_properties) ==
    IF reg.path = None
    THEN Emitted(AttributeError("__giodbustemplate__path__"), << >>)
    ELSE emit_signal(reg, "PropertiesChanged", "org.freedesktop.DBus.Properties",
                     reg.path,
                     Parameters(interface, changed_properties,
                                invalidated_properties, << >>))

Min(a, b) == IF a < b THEN a ELSE b

\* a variant of the proxy without the check of the number of returned values
handle_signal_method_unasserted(reg, info, func, interface_name, original_arguments) ==
    IF func.kind = "raise"
    THEN Emitted(Raise("Exception", "handler failed", None, None, None), << >>)
    ELSE LET \* a returned non-tuple v is wrapped as (v,), which is what vals holds
             maybe_new_values == func.vals
             values == IF func.kind = "none" THEN original_arguments
                       ELSE maybe_new_values
             \* zip(values, info.args) stops at the shorter of the two
             parameters == [k \in 1..Min(Len(values), Len(info.args)) |->
                               Variant(info.args[k], values[k])]
         IN IF FALSE
            THEN Emitted(Raise("AssertionError",
                               "signal emitter returned invalid number of arguments.",
                               "signal", info.name, interface_name), << >>)
            ELSE IF reg.path = None
            THEN Emitted(AttributeError("__giodbustemplate__path__"), << >>)
            ELSE emit_signal(reg, info.name, interface_name, reg.path,
                             Parameters(None, EmptyDict, << >>, parameters))

\* the proxy installed for a signal emitter; func is what the user's emitter
\* did with the arguments
handle_signal_method(reg, info, func, interface_name, original_arguments) ==
    IF func.kind = "raise"
    THEN Emitted(Raise("Exception", "handler failed", None, None, None), << >>)
    ELSE LET \* a returned non-tuple v is wrapped as (v,), which is what vals holds
             maybe_new_values == func.vals
             values == IF func.kind = "none" THEN original_arguments
                       ELSE maybe_new_values
             \* zip(values, info.args) stops at the shorter of the two
             parameters == [k \in 1..Min(Len(values), Len(info.args)) |->
                               Variant(info.args[k], values[k])]
         IN IF func.kind # "none" /\ Len(maybe_new_values) # Len(original_arguments)
            THEN Emitted(Raise("AssertionError",
                               "signal emitter returned invalid number of arguments.",
                               "signal", info.name, interface_name), << >>)
            ELSE IF reg.path = None
            THEN Emitted(AttributeError("__giodbustemplate__path__"), << >>)
            ELSE emit_signal(reg, info.name, interface_name, reg.path,
                             Parameters(None, EmptyDict, << >>, parameters))

-----------------------------------------------------------------------------
(* The property descriptor (DBusProperty.__get__ and __set__).             *)

\* the user's getter reads the value the instance holds for the property
DBusProperty__get__(self, values) == values[<<self.interface, self.name>>]

\* the values the user's setter leaves on the instance: it stores the value
\* or not, and returns or raises
setter_func(self, values, value, setter) ==
    IF setter \in {"store", "store_raise"}
    THEN [values EXCEPT ![<<self.interface, self.name>>] = value]
    ELSE values

SetResult(raised, values, events) ==
    [raised |-> raised, values |-> values, events |-> events]

\* a variant of __set__ that lets a missing setter pass and goes on to notify
DBusProperty__set__lenient(self, reg, values, properties, value, setter) ==
    IF FALSE
    THEN SetResult(Raise("TypeError", "this property is read-only", "property",
                         self.name, self.interface), values, << >>)
    ELSE IF setter \in {"raise", "store_raise"}
    THEN SetResult(Raise("Exception", "handler failed", None, None, None),
                   setter_func(self, values, value, setter), << >>)
    ELSE LET stored == setter_func(self, values, value, setter)
             prop_info == properties[self.interface][self.name].info
             e == IF self.emit_with_value
                  THEN emit_properties_changed(reg, self.interface,
                           Put(EmptyDict, self.name, Variant(prop_info.signature, value)),
                           << >>)
                  ELSE emit_properties_changed(reg, self.interface, EmptyDict,
                                               <<self.name>>)
         IN IF self.emit_changed
            THEN SetResult(e.raised, stored, e.events)
            ELSE SetResult(NoError, stored, << >>)

\* a variant of __set__ that reads emit_with_value the wrong way round
DBusProperty__set__flipped(self, reg, values, properties, value, setter) ==
    IF ~self.has_setter
    THEN SetResult(Raise("TypeError", "this property is read-only", "property",
                         self.name, self.interface), values, << >>)
    ELSE IF setter \in {"raise", "store_raise"}
    THEN SetResult(Raise("Exception", "handler failed", None, None, None),
                   setter_func(self, values, value, setter), << >>)
    ELSE LET stored == setter_func(self, values, value, setter)
             prop_info == properties[self.interface][self.name].info
             e == IF ~self.emit_with_value
                  THEN emit_properties_changed(reg, self.interface,
                           Put(EmptyDict, self.name, Variant(prop_info.signature, value)),
                           << >>)
                  ELSE emit_properties_changed(reg, self.interface, EmptyDict,
                                               <<self.name>>)
         IN IF self.emit_changed
            THEN SetResult(e.raised, stored, e.events)
            ELSE SetResult(NoError, stored, << >>)

\* a variant of __set__ that sends the notification first and calls the
\* setter after it
DBusProperty__set__notifying_first(self, reg, values, properties, value, setter) ==
    IF ~self.has_setter
    THEN SetResult(Raise("TypeError", "this property is read-only", "property",
                         self.name, self.interface), values, << >>)
    ELSE LET prop_info == properties[self.interface][self.name].info
             e == IF self.emit_with_value
                  THEN emit_properties_changed(reg, self.interface,
                           Put(EmptyDict, self.name, Variant(prop_info.signature, value)),
                           << >>)
                  ELSE emit_properties_changed(reg, self.interface, EmptyDict,
                                               <<self.name>>)
             sent == IF self.emit_changed THEN e.events ELSE << >>
         IN IF self.emit_changed /\ e.raised # NoError
            THEN SetResult(e.raised, values, << >>)
            ELSE IF setter \in {"raise", "store_raise"}
            THEN SetResult(Raise("Exception", "handler failed", None, None, None),
                           setter_func(self, values, value, setter), sent)
            ELSE SetResult(NoError, setter_func(self, values, value, setter), sent)

\* a variant of __set__ that puts the old value back when the notification
\* cannot be sent
DBusProperty__set__restoring(self, reg, values, properties, value, setter) ==
    IF ~self.has_setter
    THEN SetResult(Raise("TypeError", "this property is read-only", "property",
                         self.name, self.interface), values, << >>)
    ELSE IF setter \in {"raise", "store_raise"}
    THEN SetResult(Raise("Exception", "handler failed", None, None, None),
                   setter_func(self, values, value, setter), << >>)
    ELSE LET stored == setter_func(self, values, value, setter)
             prop_info == properties[self.interface][self.name].info
             e == IF self.emit_with_value
                  THEN emit_properties_changed(reg, self.interface,
                           Put(EmptyDict, self.name, Variant(prop_info.signature, value)),
                           << >>)
                  ELSE emit_properties_changed(reg, self.interface, EmptyDict,
                                               <<self.name>>)
         IN IF self.emit_changed
            THEN SetResult(e.raised, IF e.raised = NoError THEN stored ELSE values,
                           e.events)
            ELSE SetResult(NoError, stored, << >>)

\* self is the descriptor, values the instance's property state, setter what
\* the user's setter does with the value: "store", "ignore", "raise", or
\* "store_raise" (stores, then raises)
DBusProperty__set__(self, reg, values, properties, value, setter) ==
    IF ~self.has_setter
    THEN SetResult(Raise("TypeError", "this property is read-only", "property",
                         self.name, self.interface), values, << >>)
    ELSE IF setter \in {"raise", "store_raise"}
    THEN SetResult(Raise("Exception", "handler failed", None, None, None),
                   setter_func(self, values, value, setter), << >>)
    ELSE LET stored == setter_func(self, values, value, setter)
             prop_info == properties[self.interface][self.name].info
             e == IF self.emit_with_value
                  THEN emit_properties_changed(reg, self.interface,
                           Put(EmptyDict, self.name, Variant(prop_info.signature, value)),
                           << >>)
                  ELSE emit_properties_changed(reg, self.interface, EmptyDict,
                                               <<self.name>>)
         IN IF self.emit_changed
            THEN SetResult(e.raised, stored, e.events)
            ELSE SetResult(NoError, stored, << >>)

-----------------------------------------------------------------------------
(* Inbound: the three closures register_object hands to the transport.     *)

\* sys.gettrace exists in every CPython, whether or not a trace hook is set
sys_has_gettrace == TRUE

CallResult(raised, reply) == [raised |-> raised, reply |-> reply]

\* GLib.Variant("(...)", result): one value per signature, none of them None
TupleFits(signatures, result) ==
    /\ Len(result) = Len(signatures)
    /\ \A k \in DOMAIN result : result[k] # NoValue

\* a variant of on_method_call that tags the error reply with the method name
on_method_call_mistagged(methods, interface_name, method_name, func) ==
    LET method_info == methods[interface_name][method_name].info
        e == Raise("Exception", "handler failed", None, None, None)
        result == CASE func.kind = "tuple" -> func.vals
                    [] func.kind = "value" -> func.vals
                    [] OTHER -> <<NoValue>>
    IN IF func.kind = "raise"
       THEN CallResult(IF sys_has_gettrace THEN e ELSE NoError,
                       [kind |-> "error", interface |-> method_name,
                        message |-> e.msg, values |-> << >>])
       ELSE IF method_info.out_args # << >>
       THEN IF TupleFits(method_info.out_args, result)
            THEN CallResult(NoError, [kind |-> "value", interface |-> None,
                                      message |-> None, values |-> result])
            ELSE CallResult(Raise("TypeError", "invalid variant", "method",
                                  method_name, interface_name), NoReply)
       ELSE CallResult(NoError, [kind |-> "value", interface |-> None,
                                 message |-> None, values |-> << >>])

\* a variant of on_method_call that hands a result that is not a tuple to
\* GLib.Variant as it is, which takes it for no values
on_method_call_unwrapped(methods, interface_name, method_name, func) ==
    LET method_info == methods[interface_name][method_name].info
        e == Raise("Exception", "handler failed", None, None, None)
        result == CASE func.kind = "tuple" -> func.vals
                    [] func.kind = "value" -> << >>
                    [] OTHER -> <<NoValue>>
    IN IF func.kind = "raise"
       THEN CallResult(IF sys_has_gettrace THEN e ELSE NoError,
                       [kind |-> "error", interface |-> interface_name,
                        message |-> e.msg, values |-> << >>])
       ELSE IF method_info.out_args # << >>
       THEN IF TupleFits(method_info.out_args, result)
            THEN CallResult(NoError, [kind |-> "value", interface |-> None,
                                      message |-> None, values |-> result])
            ELSE CallResult(Raise("TypeError", "invalid variant", "method",
                                  method_name, interface_name), NoReply)
       ELSE CallResult(NoError, [kind |-> "value", interface |-> None,
                                 message |-> None, values |-> << >>])

\* a variant of on_method_call that does not send the error reply
on_method_call_silent(methods, interface_name, method_name, func) ==
    LET method_info == methods[interface_name][method_name].info
        e == Raise("Exception", "handler failed", None, None, None)
        result == CASE func.kind = "tuple" -> func.vals
                    [] func.kind = "value" -> func.vals
                    [] OTHER -> <<NoValue>>
    IN IF func.kind = "raise"
       THEN CallResult(IF sys_has_gettrace THEN e ELSE NoError,
                       NoReply)
       ELSE IF method_info.out_args # << >>
       THEN IF TupleFits(method_info.out_args, result)
            THEN CallResult(NoError, [kind |-> "value", interface |-> None,
                                      message |-> None, values |-> result])
            ELSE CallResult(Raise("TypeError", "invalid variant", "method",
                                  method_name, interface_name), NoReply)
       ELSE CallResult(NoError, [kind |-> "value", interface |-> None,
                                 message |-> None, values |-> << >>])

\* func is what the user's handler did
on_method_call(methods, interface_name, method_name, func) ==
    LET method_info == methods[interface_name][method_name].info
        e == Raise("Exception", "handler failed", None, None, None)
        result == CASE func.kind = "tuple" -> func.vals
                    [] func.kind = "value" -> func.vals
                    [] OTHER -> <<NoValue>>
    IN IF func.kind = "raise"
       THEN CallResult(IF sys_has_gettrace THEN e ELSE NoError,
                       [kind |-> "error", interface |-> interface_name,
                        message |-> e.msg, values |-> << >>])
       ELSE IF method_info.out_args # << >>
       THEN IF TupleFits(method_info.out_args, result)
            THEN CallResult(NoError, [kind |-> "value", interface |-> None,
                                      message |-> None, values |-> result])
            ELSE CallResult(Raise("TypeError", "invalid variant", "method",
                                  method_name, interface_name), NoReply)
       ELSE CallResult(NoError, [kind |-> "value", interface |-> None,
                                 message |-> None, values |-> << >>])

\* the descriptor a properties table entry refers to
Descriptor(d, entry) == d[entry.handler].standin

on_get_property(d, properties, values, interface_name, property_name) ==
    LET prop_info == properties[interface_name][property_name].info
        prop == Descriptor(d, properties[interface_name][property_name])
    IN Variant(prop_info.signature, DBusProperty__get__(prop, values))

True == Variant("b", 1)

\* a variant of on_set_property that catches what __set__ raises and reports success
on_set_property_caught(d, properties, reg, values, interface_name, property_name, value, setter) ==
    LET prop == Descriptor(d, properties[interface_name][property_name])
        r == DBusProperty__set__(prop, reg, values, properties, unpack(value), setter)
    IN [raised |-> NoError, values |-> r.values, events |-> r.events, result |-> True]

\* returns True unless __set__ raised, and then the exception leaves it
on_set_property(d, properties, reg, values, interface_name, property_name, value, setter) ==
    LET prop == Descriptor(d, properties[interface_name][property_name])
        r == DBusProperty__set__(prop, reg, values, properties, unpack(value), setter)
    IN [raised |-> r.raised, values |-> r.values, events |-> r.events,
        result |-> IF r.raised = NoError THEN True ELSE NoVariant]

-----------------------------------------------------------------------------
(* DBusTemplate.properties_changed.                                        *)

RECURSIVE ChangedLoop_all(_, _, _, _, _, _, _)
\* a variant of the loop that ignores emit_changed
ChangedLoop_all(d, properties, reg, values, interface, names, acc) ==
    IF names = << >> \/ acc.raised # NoError THEN acc
    ELSE LET prop_name == Head(names)
             info == properties[interface]
             prop == Descriptor(d, info[prop_name])
             next ==
                IF prop_name \notin DOMAIN info
                THEN [acc EXCEPT !.raised = Raise("TypeError", "does not define a property",
                                                  "property", prop_name, interface)]
                ELSE IF FALSE THEN acc
                ELSE IF ~prop.emit_with_value
                THEN [acc EXCEPT !.invalidated = Append(@, prop_name)]
                ELSE IF reg.connection = None
                THEN [acc EXCEPT !.raised = AttributeError("__giodbustemplate__connection__")]
                ELSE [acc EXCEPT !.with_values =
                         Put(@, prop_name,
                             on_get_property(d, properties, values, interface, prop_name))]
         IN ChangedLoop_all(d, properties, reg, values, interface, Tail(names), next)

RECURSIVE ChangedLoop_skipping(_, _, _, _, _, _, _)
\* a variant of the loop that passes over a name the interface does not define
ChangedLoop_skipping(d, properties, reg, values, interface, names, acc) ==
    IF names = << >> \/ acc.raised # NoError THEN acc
    ELSE LET prop_name == Head(names)
             info == properties[interface]
             prop == Descriptor(d, info[prop_name])
             next ==
                IF prop_name \notin DOMAIN info
                THEN acc
                ELSE IF ~prop.emit_changed THEN acc
                ELSE IF ~prop.emit_with_value
                THEN [acc EXCEPT !.invalidated = Append(@, prop_name)]
                ELSE IF reg.connection = None
                THEN [acc EXCEPT !.raised = AttributeError("__giodbustemplate__connection__")]
                ELSE [acc EXCEPT !.with_values =
                         Put(@, prop_name,
                             on_get_property(d, properties, values, interface, prop_name))]
         IN ChangedLoop_skipping(d, properties, reg, values, interface, Tail(names), next)

RECURSIVE ChangedLoop_settable_skipped(_, _, _, _, _, _, _)
\* a variant of the loop that leaves a property with a setter to the
\* notification of its setter
ChangedLoop_settable_skipped(d, properties, reg, values, interface, names, acc) ==
    IF names = << >> \/ acc.raised # NoError THEN acc
    ELSE LET prop_name == Head(names)
             info == properties[interface]
             prop == Descriptor(d, info[prop_name])
             next ==
                IF prop_name \notin DOMAIN info
                THEN [acc EXCEPT !.raised = Raise("TypeError", "does not define a property",
                                                  "property", prop_name, interface)]
                ELSE IF ~prop.emit_changed \/ prop.has_setter THEN acc
                ELSE IF ~prop.emit_with_value
                THEN [acc EXCEPT !.invalidated = Append(@, prop_name)]
                ELSE IF reg.connection = None
                THEN [acc EXCEPT !.raised = AttributeError("__giodbustemplate__connection__")]
                ELSE [acc EXCEPT !.with_values =
                         Put(@, prop_name,
                             on_get_property(d, properties, values, interface, prop_name))]
         IN ChangedLoop_settable_skipped(d, properties, reg, values, interface,
                                         Tail(names), next)

RECURSIVE ChangedLoop(_, _, _, _, _, _, _)
\* the loop over the requested names, collecting the two parts of the event
ChangedLoop(d, properties, reg, values, interface, names, acc) ==
    IF names = << >> \/ acc.raised # NoError THEN acc
    ELSE LET prop_name == Head(names)
             info == properties[interface]
             prop == Descriptor(d, info[prop_name])
             next ==
                IF prop_name \notin DOMAIN info
                THEN [acc EXCEPT !.raised = Raise("TypeError", "does not define a property",
                                                  "property", prop_name, interface)]
                ELSE IF ~prop.emit_changed THEN acc
                ELSE IF ~prop.emit_with_value
                THEN [acc EXCEPT !.invalidated = Append(@, prop_name)]
                ELSE IF reg.connection = None
                THEN [acc EXCEPT !.raised = AttributeError("__giodbustemplate__connection__")]
                ELSE [acc EXCEPT !.with_values =
                         Put(@, prop_name,
                             on_get_property(d, properties, values, interface, prop_name))]
         IN ChangedLoop(d, properties, reg, values, interface, Tail(names), next)

properties_changed(has_interfaces, d, properties, reg, values, interface, names) ==
    IF ~has_interfaces
    THEN Emitted(Raise("TypeError", "must be called for object decorated with DBusTemplate",
                       None, None, None), << >>)
    ELSE IF interface \notin DOMAIN properties
    THEN Emitted(Raise("TypeError", "does not implement D-Bus interface",
                       None, None, interface), << >>)
    ELSE LET acc == ChangedLoop(d, properties, reg, values, interface, names,
                                [raised |-> NoError, with_values |-> EmptyDict,
                                 invalidated |-> << >>])
         IN IF acc.raised # NoError THEN Emitted(acc.raised, << >>)
            ELSE emit_properties_changed(reg, interface, acc.with_values, acc.invalidated)

-----------------------------------------------------------------------------
(* DBusTemplate.register_object.                                           *)

Export(connection, path, interface, obj) ==
    [connection |-> connection, path |-> path, interface |-> interface, obj |-> obj]

RECURSIVE RegisterInterfaces(_, _, _, _, _)
\* the loop over the interfaces; connection.register_object raises GLib.Error
\* when the path already exports the interface on that connection
RegisterInterfaces(table, connection, path, interfaces, obj) ==
    IF interfaces = << >> THEN [raised |-> NoError, exported |-> table]
    ELSE IF \E x \in table : /\ x.connection = connection /\ x.path = path
                             /\ x.interface = Head(interfaces)
    THEN [raised |-> Raise("GLib.Error", "An object is already exported for the interface",
                           None, path, Head(interfaces)),
          exported |-> table]
    ELSE RegisterInterfaces(table \cup {Export(connection, path, Head(interfaces), obj)},
                            connection, path, Tail(interfaces), obj)

BusName == "org.example.Name"

\* a variant of register_object without the check that the object is unregistered
register_object_again(has_interfaces, interfaces, reg, names, table, connection, name, path, obj) ==
    IF ~has_interfaces
    THEN [raised |-> Raise("TypeError",
                           "register_object must be called for object decorated with DBusTemplate",
                           None, None, None),
          registration |-> reg, owned_names |-> names, exported |-> table]
    ELSE IF FALSE
    THEN [raised |-> Raise("TypeError",
                           "register_object can only be called once for an object",
                           None, None, None),
          registration |-> reg, owned_names |-> names, exported |-> table]
    ELSE LET r == RegisterInterfaces(table, connection, path, interfaces, obj)
         IN [raised |-> r.raised,
             registration |-> [connection |-> connection, path |-> path],
             owned_names |-> names \cup {<<connection, name>>},
             exported |-> r.exported]

\* a variant that registers without looking for the class's interface list
register_object_unbound(has_interfaces, interfaces, reg, names, table, connection, name, path, obj) ==
    IF reg.connection # None
    THEN [raised |-> Raise("TypeError",
                           "register_object can only be called once for an object",
                           None, None, None),
          registration |-> reg, owned_names |-> names, exported |-> table]
    ELSE LET r == RegisterInterfaces(table, connection, path, interfaces, obj)
         IN [raised |-> r.raised,
             registration |-> [connection |-> connection, path |-> path],
             owned_names |-> names \cup {<<connection, name>>},
             exported |-> r.exported]

\* the whole call: both checks, the two setattr, the name request, the loop
register_object(has_interfaces, interfaces, reg, names, table, connection, name, path, obj) ==
    IF ~has_interfaces
    THEN [raised |-> Raise("TypeError",
                           "register_object must be called for object decorated with DBusTemplate",
                           None, None, None),
          registration |-> reg, owned_names |-> names, exported |-> table]
    ELSE IF reg.connection # None
    THEN [raised |-> Raise("TypeError",
                           "register_object can only be called once for an object",
                           None, None, None),
          registration |-> reg, owned_names |-> names, exported |-> table]
    ELSE LET r == RegisterInterfaces(table, connection, path, interfaces, obj)
         IN [raised |-> r.raised,
             registration |-> [connection |-> connection, path |-> path],
             owned_names |-> names \cup {<<connection, name>>},
             exported |-> r.exported]

-----------------------------------------------------------------------------
(* DBusTemplate.__call__: the class decorator.                             *)

\* a kept history takes no more than MaxCalls calls
HistoryOpen == history.on => Len(history.calls) < MaxCalls

\* PlayerApp.__init__: no current track and an empty track list; a track is
\* known by its uri
PlayerApp__init__ == [current_track |-> None, tracklist |-> << >>]

InitRuntime ==
    /\ cls_dict = ClassDict(cls)
    /\ decorated = "pending"
    /\ bind_error = NoError
    /\ def_interfaces = << >>
    /\ def_methods = EmptyDict
    /\ def_properties = EmptyDict
    /\ registration = [o \in Objs |-> Unregistered]
    /\ owned_names = {}
    /\ exported = {}
    /\ pstate = [o \in Objs |-> [p \in collect_unassigned(infos_properties(xml)) |-> 0]]
    /\ failed_calls = {}
    /\ last = NoOp

InitBind ==
    /\ \E decl \in {d \in SUBSET BindSlots : Cardinality(d) <= MaxMembers} :
          xml = XmlOf(BindInterfaces, decl)
    /\ \E body \in SeqsUpTo(BindStandins, MaxStandins) : cls = ClassBody(body)
    /\ declarations = NoDeclarations
    /\ history = NoHistory
    /\ app = PlayerApp__init__
    /\ instances = {}
    /\ InitRuntime

DBusTemplateCall ==
    /\ decorated = "pending"
    /\ ClassBodyDone
    /\ LET st == Scan(xml, cls_dict) IN
         /\ cls_dict' = st.cls_dict
         /\ IF st.raised # NoError
            THEN /\ decorated' = "failed"
                 /\ bind_error' = st.raised
                 /\ UNCHANGED <<def_interfaces, def_methods, def_properties, app>>
            ELSE IF MissingHandler(st) # {}
            THEN /\ decorated' = "failed"
                 /\ \E e \in MissingHandler(st) : bind_error' = e
                 /\ UNCHANGED <<def_interfaces, def_methods, def_properties, app>>
            ELSE /\ decorated' = "bound"
                 /\ bind_error' = NoError
                 /\ def_interfaces' = [k \in DOMAIN xml |-> xml[k].name]
                 /\ def_methods' = st.def_methods
                 /\ def_properties' = st.def_properties
    /\ last' = Op("DBusTemplate.__call__", NoInputs, bind_error', NoVariant, NoReply, << >>)
    /\ UNCHANGED <<declarations, xml, cls, registration, owned_names, exported, pstate, instances,
                   failed_calls, history, app>>

-----------------------------------------------------------------------------
(* The operations on instances.                                            *)

\* what a user's method handler or signal emitter may do
HandlerOutcomes ==
    {Raised, ReturnNone} \cup {ReturnValue(v) : v \in Values}
    \cup {ReturnTuple(t) : t \in SeqsUpTo(Values, MaxArgs)}

\* the argument lists a signal emitter is called with: 1, 2, ..., n
OriginalArguments == {[k \in 1..n |-> k] : n \in 0..MaxArgs}

\* what a user's property setter may do with the value
SetterOutcomes == {"store", "ignore", "raise", "store_raise"}

RegisterObject ==
    /\ last = NoOp
    /\ decorated # "pending"
    /\ \E obj \in instances, connection \in Connections, path \in Paths :
         LET r == register_object(decorated = "bound", def_interfaces, registration[obj],
                                  owned_names, exported, connection, BusName, path, obj)
         IN /\ registration' = [registration EXCEPT ![obj] = r.registration]
            /\ owned_names' = r.owned_names
            /\ exported' = r.exported
            /\ last' = Op("register_object",
                          [NoInputs EXCEPT !.obj = obj, !.connection = connection,
                                           !.path = path],
                          r.raised, NoVariant, NoReply, << >>)
    /\ UNCHANGED <<declarations, xml, cls, cls_dict, decorated, bind_error, def_interfaces,
                   def_methods, def_properties, pstate, instances, failed_calls, history, app>>

\* a variant of the inbound call that takes the entry out of the methods table
\* as it looks it up
OnMethodCall_popping ==
    /\ last = NoOp
    /\ \E x \in exported :
         /\ x.interface \in DOMAIN def_methods
         /\ \E method_name \in DOMAIN def_methods[x.interface],
               func \in HandlerOutcomes, gettrace \in {None, "hook"} :
              LET r == on_method_call(def_methods, x.interface, method_name, func)
              IN /\ func # Raised => gettrace = None
                 /\ failed_calls' = IF func = Raised THEN failed_calls \cup {x.obj}
                                    ELSE failed_calls
                 /\ def_methods' = [def_methods EXCEPT ![x.interface] =
                        [n \in DOMAIN @ \ {method_name} |-> @[n]]]
                 /\ last' = Op("on_method_call",
                               [NoInputs EXCEPT !.obj = x.obj, !.connection = x.connection,
                                                !.path = x.path, !.interface = x.interface,
                                                !.member = method_name, !.handler = func,
                                                !.gettrace = gettrace],
                               r.raised, NoVariant, r.reply, << >>)
    /\ UNCHANGED <<declarations, xml, cls, cls_dict, decorated, bind_error, def_interfaces,
                   def_properties, registration, owned_names, exported,
                   pstate, instances, history, app>>

\* the transport calls a closure only for a member the registered interface declares
OnMethodCall ==
    /\ last = NoOp
    /\ \E x \in exported :
         /\ x.interface \in DOMAIN def_methods
         /\ \E method_name \in DOMAIN def_methods[x.interface],
               func \in HandlerOutcomes, gettrace \in {None, "hook"} :
              LET r == on_method_call(def_methods, x.interface, method_name, func)
              IN /\ func # Raised => gettrace = None
                 /\ failed_calls' = IF func = Raised THEN failed_calls \cup {x.obj}
                                    ELSE failed_calls
                 /\ last' = Op("on_method_call",
                               [NoInputs EXCEPT !.obj = x.obj, !.connection = x.connection,
                                                !.path = x.path, !.interface = x.interface,
                                                !.member = method_name, !.handler = func,
                                                !.gettrace = gettrace],
                               r.raised, NoVariant, r.reply, << >>)
    /\ UNCHANGED <<declarations, xml, cls, cls_dict, decorated, bind_error, def_interfaces,
                   def_methods, def_properties, registration, owned_names, exported,
                   pstate, instances, history, app>>

OnGetProperty ==
    /\ last = NoOp
    /\ \E x \in exported :
         /\ x.interface \in DOMAIN def_properties
         /\ \E property_name \in DOMAIN def_properties[x.interface] :
              last' = Op("on_get_property",
                         [NoInputs EXCEPT !.obj = x.obj, !.connection = x.connection,
                                          !.path = x.path, !.interface = x.interface,
                                          !.member = property_name],
                         NoError,
                         on_get_property(cls_dict, def_properties, pstate[x.obj],
                                         x.interface, property_name),
                         NoReply, << >>)
    /\ UNCHANGED <<declarations, xml, cls, cls_dict, decorated, bind_error, def_interfaces,
                   def_methods, def_properties, registration, owned_names, exported,
                   pstate, instances, failed_calls, history, app>>

\* a property without a setter has no user code to run
SettersOf(prop) == IF prop.has_setter THEN SetterOutcomes ELSE {None}

OnSetProperty ==
    /\ last = NoOp
    /\ HistoryOpen
    /\ \E x \in exported :
         /\ x.interface \in DOMAIN def_properties
         /\ \E property_name \in DOMAIN def_properties[x.interface], v \in Values :
              LET entry == def_properties[x.interface][property_name] IN
              \E setter \in SettersOf(Descriptor(cls_dict, entry)) :
                LET r == on_set_property(cls_dict, def_properties, registration[x.obj],
                                         pstate[x.obj], x.interface, property_name,
                                         Variant(entry.info.signature, v), setter)
                IN /\ pstate' = [pstate EXCEPT ![x.obj] = r.values]
                   /\ last' = Op("on_set_property",
                                 [NoInputs EXCEPT !.obj = x.obj, !.connection = x.connection,
                                                  !.path = x.path, !.interface = x.interface,
                                                  !.member = property_name, !.value = v,
                                                  !.setter = setter],
                                 r.raised, r.result, NoReply, r.events)
    /\ history' = Recorded(history, last')
    /\ UNCHANGED <<declarations, xml, cls, cls_dict, decorated, bind_error, def_interfaces,
                   def_methods, def_properties, registration, owned_names, exported,
                   instances, failed_calls, app>>

\* obj.prop = value in the program's own code, on any instance
DescriptorSet ==
    /\ last = NoOp
    /\ HistoryOpen
    /\ decorated = "bound"
    /\ \E obj \in instances, i \in DOMAIN cls_dict, v \in Values :
         /\ cls_dict[i].standin.type = "property"
         /\ LET self == cls_dict[i].standin IN
            \E setter \in SettersOf(self) :
              LET r == DBusProperty__set__(self, registration[obj], pstate[obj],
                                           def_properties, v, setter)
              IN /\ pstate' = [pstate EXCEPT ![obj] = r.values]
                 /\ last' = Op("DBusProperty.__set__",
                               [NoInputs EXCEPT !.obj = obj, !.interface = self.interface,
                                                !.member = self.name, !.value = v,
                                                !.setter = setter],
                               r.raised, NoVariant, NoReply, r.events)
    /\ history' = Recorded(history, last')
    /\ UNCHANGED <<declarations, xml, cls, cls_dict, decorated, bind_error, def_interfaces,
                   def_methods, def_properties, registration, owned_names, exported,
                   instances, failed_calls, app>>

\* obj.some_signal(*arguments) in the program's own code, on any instance
SignalCall ==
    /\ last = NoOp
    /\ HistoryOpen
    /\ decorated = "bound"
    /\ \E obj \in instances, i \in DOMAIN cls_dict,
          original_arguments \in OriginalArguments, func \in HandlerOutcomes :
         /\ cls_dict[i].slot = "partialmethod"
         /\ LET r == handle_signal_method(registration[obj], cls_dict[i].signal_info,
                                          func, cls_dict[i].signal_interface,
                                          original_arguments)
            IN last' = Op("handle_signal_method",
                          [NoInputs EXCEPT !.obj = obj,
                                           !.interface = cls_dict[i].signal_interface,
                                           !.member = cls_dict[i].signal_info.name,
                                           !.arguments = original_arguments,
                                           !.handler = func],
                          r.raised, NoVariant, NoReply, r.events)
    /\ history' = Recorded(history, last')
    /\ UNCHANGED <<declarations, xml, cls, cls_dict, decorated, bind_error, def_interfaces,
                   def_methods, def_properties, registration, owned_names, exported,
                   pstate, instances, failed_calls, app>>

\* the names a caller may pass: the declared property names and one that is not
RequestNames == {p[2] : p \in collect_unassigned(infos_properties(xml))} \cup {"Z"}
RequestInterfaces == {f.name : f \in Range(xml)} \cup {"I3"}

PropertiesChanged ==
    /\ last = NoOp
    /\ HistoryOpen
    /\ decorated # "pending"
    /\ \E obj \in instances, interface \in RequestInterfaces,
          names \in SeqsUpTo(RequestNames, MaxNames) :
         LET r == properties_changed(decorated = "bound", cls_dict, def_properties,
                                     registration[obj], pstate[obj], interface, names)
         IN last' = Op("properties_changed",
                       [NoInputs EXCEPT !.obj = obj, !.interface = interface,
                                        !.names = names],
                       r.raised, NoVariant, NoReply, r.events)
    /\ history' = Recorded(history, last')
    /\ UNCHANGED <<declarations, xml, cls, cls_dict, decorated, bind_error, def_interfaces,
                   def_methods, def_properties, registration, owned_names, exported,
                   pstate, instances, failed_calls, app>>

-----------------------------------------------------------------------------
(* Specifications.                                                         *)

\* the demo-sized service: two methods, a signal and two properties on I1,
\* one method, one signal and no property on I2
RuntimeXml ==
    XmlOf(<<"I1", "I2">>,
          {<<"I1", "method", "A">>, <<"I1", "method", "B">>, <<"I1", "signal", "S">>,
           <<"I1", "property", "P">>, <<"I1", "property", "Q">>,
           <<"I2", "method", "C">>, <<"I2", "signal", "T">>})

PropertyFlags == [emit_changed : BOOLEAN, emit_with_value : BOOLEAN, has_setter : BOOLEAN]
ReadOnlyFlags == {f \in PropertyFlags : ~f.has_setter}

\* a class body for RuntimeXml: P with any flags, Q read-only with any notify
\* flags; complete = FALSE leaves out Q's getter
RuntimeClass(pf, qf, complete) ==
    ClassBody(
        <<DBusHandlerStandIn("method", "A", None),
          DBusHandlerStandIn("method", "B", "I1"),
          DBusHandlerStandIn("signal", "S", None),
          DBusProperty("P", None, pf.emit_changed, pf.emit_with_value, pf.has_setter)>>
        \o (IF complete
            THEN <<DBusProperty("Q", None, qf.emit_changed, qf.emit_with_value,
                                qf.has_setter)>>
            ELSE << >>)
        \o <<DBusHandlerStandIn("method", "C", None),
              DBusHandlerStandIn("signal", "T", "I2")>>)

\* one more attribute that makes the class body fail to bind: a name no
\* interface declares, an interface the schema lacks, an interface that does
\* not declare the name, a second handler for a bound member
BrokenExtras ==
    {DBusHandlerStandIn("method", "Z", None), DBusHandlerStandIn("method", "A", "I3"),
     DBusHandlerStandIn("method", "A", "I2"), DBusHandlerStandIn("method", "A", None)}

Init ==
    /\ xml = RuntimeXml
    /\ \E pf \in PropertyFlags, qf \in ReadOnlyFlags, complete \in BOOLEAN,
          extra \in SeqsUpTo(BrokenExtras, 1) :
          cls = ClassBody(RuntimeClass(pf, qf, complete) \o extra)
    /\ declarations = NoDeclarations
    /\ history = NoHistory
    /\ app = PlayerApp__init__
    /\ instances = {"o1"}
    /\ InitRuntime

\* the call that has just run returns and the main loop takes the next event
Return ==
    /\ last # NoOp
    /\ last' = NoOp
    /\ UNCHANGED <<declarations, xml, cls, cls_dict, decorated, bind_error, def_interfaces,
                   def_methods, def_properties, registration, owned_names, exported,
                   pstate, instances, failed_calls, history, app>>

Next ==
    \/ DBusTemplateCall
    \/ RegisterObject
    \/ OnMethodCall
    \/ OnGetProperty
    \/ OnSetProperty
    \/ DescriptorSet
    \/ SignalCall
    \/ PropertiesChanged
    \/ Return

Spec == Init /\ [][Next]_vars

NextBind == DBusTemplateCall

\* a service at work: the class is bound (the decorator has run on it, and
\* nothing was raised) and the instances in objs are registered, o1 at
\* connection c1 and path /p1, o2 at c2 and /p2
Served(obj) == IF obj = "o1" THEN [connection |-> "c1", path |-> "/p1"]
               ELSE [connection |-> "c2", path |-> "/p2"]

RECURSIVE RegisterAll(_, _, _)
\* register_object on each of the instances in turn
RegisterAll(objs, interfaces, r) ==
    IF objs = << >> THEN r
    ELSE LET obj == Head(objs)
             n == register_object(TRUE, interfaces, Unregistered, r.owned_names,
                                  r.exported, Served(obj).connection, BusName,
                                  Served(obj).path, obj)
         IN RegisterAll(Tail(objs), interfaces,
                        [registration |-> [r.registration EXCEPT ![obj] = n.registration],
                         owned_names |-> n.owned_names, exported |-> n.exported])

InitServing(objs) ==
    /\ declarations = NoDeclarations
    /\ LET st == Scan(xml, ClassDict(cls)) IN
          /\ cls_dict = st.cls_dict
          /\ def_methods = st.def_methods
          /\ def_properties = st.def_properties
    /\ decorated = "bound"
    /\ bind_error = NoError
    /\ def_interfaces = [k \in DOMAIN xml |-> xml[k].name]
    /\ LET r == RegisterAll(objs, def_interfaces,
                            [registration |-> [o \in Objs |-> Unregistered],
                             owned_names |-> {}, exported |-> {}])
       IN /\ registration = r.registration
          /\ owned_names = r.owned_names
          /\ exported = r.exported
    /\ pstate = [o \in Objs |-> [p \in collect_unassigned(infos_properties(xml)) |-> 0]]
    /\ failed_calls = {}
    /\ last = NoOp

\* one interface with two properties; P is writable and notifies with its
\* value, Q is writable and does not notify, or writable and notifies without
\* its value, or read-only
HistoryFlags ==
    {[emit_changed |-> FALSE, emit_with_value |-> TRUE, has_setter |-> TRUE],
     [emit_changed |-> TRUE, emit_with_value |-> FALSE, has_setter |-> TRUE],
     [emit_changed |-> TRUE, emit_with_value |-> TRUE, has_setter |-> FALSE]}

HistoryXml == XmlOf(<<"I1">>, {<<"I1", "property", "P">>, <<"I1", "property", "Q">>})

HistoryClass(qf) ==
    ClassBody(<<DBusProperty("P", None, TRUE, TRUE, TRUE),
                DBusProperty("Q", None, qf.emit_changed, qf.emit_with_value,
                             qf.has_setter)>>)

\* inbound property sets arrive one after another at a registered instance
InitSets ==
    /\ xml = HistoryXml
    /\ \E qf \in HistoryFlags : cls = HistoryClass(qf)
    /\ instances = {"o1"}
    /\ history = EmptyHistory
    /\ app = PlayerApp__init__
    /\ InitServing(<<"o1">>)

NextSets == OnSetProperty \/ Return

SpecSets == InitSets /\ [][NextSets]_vars

\* one interface with the one property P, writable, notifying with its value
\* or without it
NotifyXml == XmlOf(<<"I1">>, {<<"I1", "property", "P">>})

NotifyClass(emit_with_value) ==
    ClassBody(<<DBusProperty("P", None, TRUE, emit_with_value, TRUE)>>)

\* property sets and properties_changed calls arrive at a registered instance
InitNotify ==
    /\ xml = NotifyXml
    /\ \E emit_with_value \in BOOLEAN : cls = NotifyClass(emit_with_value)
    /\ instances = {"o1"}
    /\ history = EmptyHistory
    /\ app = PlayerApp__init__
    /\ InitServing(<<"o1">>)

NextNotify == OnSetProperty \/ PropertiesChanged \/ Return

SpecNotify == InitNotify /\ [][NextNotify]_vars

\* two instances of one bound class; the interface has a writable property
\* that notifies with its value and a signal
PairXml == XmlOf(<<"I1">>, {<<"I1", "property", "P">>, <<"I1", "signal", "S">>})

PairClass ==
    ClassBody(<<DBusProperty("P", None, TRUE, TRUE, TRUE),
                DBusHandlerStandIn("signal", "S", None)>>)

InitPair ==
    /\ xml = PairXml
    /\ cls = PairClass
    /\ instances = {"o1", "o2"}
    /\ history = NoHistory
    /\ app = PlayerApp__init__
    /\ InitServing(<< >>)

NextPair ==
    \/ RegisterObject
    \/ OnSetProperty
    \/ DescriptorSet
    \/ SignalCall
    \/ PropertiesChanged
    \/ Return

SpecPair == InitPair /\ [][NextPair]_vars

\* schemas of three interfaces, for the names that recur in all of them
CatalogInterfaces == <<"I1", "I2", "I3">>
CatalogSlots == {<<i, "method", "A">> : i \in Range(CatalogInterfaces)}
                \cup {<<i, "signal", "S">> : i \in Range(CatalogInterfaces)}
                \cup {<<i, "property", "P">> : i \in Range(CatalogInterfaces)}
CatalogStandins == {DBusHandlerStandIn("method", "A", i) : i \in {None, "I1", "I2"}}

InitCatalog ==
    /\ \E decl \in SUBSET CatalogSlots : xml = XmlOf(CatalogInterfaces, decl)
    /\ \E body \in SeqsUpTo(CatalogStandins, MaxStandins) : cls = ClassBody(body)
    /\ declarations = NoDeclarations
    /\ history = NoHistory
    /\ app = PlayerApp__init__
    /\ instances = {}
    /\ InitRuntime

SpecCatalog == InitCatalog /\ [][NextBind]_vars

\* the class body is being evaluated: every decorator is applied to a function
InitName ==
    /\ xml = XmlOf(BindInterfaces, {})
    /\ cls = << >>
    /\ \E d \in Decorations : declarations = [body |-> <<d>>, pc |-> 0]
    /\ history = NoHistory
    /\ app = PlayerApp__init__
    /\ instances = {}
    /\ InitRuntime

\* name = value in the class body: a name bound before keeps its place
Bind(body, attr, value) ==
    LET bound == [value EXCEPT !.attr = attr]
        at == {k \in DOMAIN body : body[k].attr = attr}
        all == IF at = {} THEN Append(body, bound)
               ELSE [k \in DOMAIN body |-> IF k \in at THEN bound ELSE body[k]]
    IN [k \in DOMAIN all |-> [all[k] EXCEPT !.func = k]]

\* the object the name stands for has changed: every attribute that holds it
Mutated(body, object) ==
    [k \in DOMAIN body |-> IF body[k].obj = object.obj
                           THEN [object EXCEPT !.attr = body[k].attr, !.func = k]
                           ELSE body[k]]

\* the next decorator application of the class body is evaluated and its
\* result bound to the function's name; an exception leaves the class body
Decorate ==
    /\ declarations.pc < Len(declarations.body)
    /\ last.raised = NoError
    /\ LET self == declarations.body[declarations.pc + 1]
           held == {k \in DOMAIN cls : cls[k].attr = self.target}
           r == CASE self.decorator = "Method" -> Method__call__(self, self.func_name)
                  [] self.decorator = "Signal" -> Signal__call__(self, self.func_name)
                  [] self.decorator = "Property" -> Property__call__(self, self.func_name)
                  [] self.decorator = "DBusProperty" ->
                       [raised |-> NoError,
                        standin |-> DBusPropertySetterOnly(self.name, self.interface,
                                        self.emit_changed, self.emit_with_value)]
                  [] held = {} ->
                       [raised |-> Raise("NameError", "name is not defined", None,
                                         None, None),
                        standin |-> None]
                  [] self.decorator = "setter" ->
                       [raised |-> NoError,
                        standin |-> DBusProperty_setter(cls[CHOOSE k \in held : TRUE])]
                  [] OTHER ->
                       [raised |-> NoError,
                        standin |-> DBusProperty_getter(cls[CHOOSE k \in held : TRUE])]
           created == self.decorator \in {"Method", "Signal", "Property", "DBusProperty"}
       IN /\ cls' = IF r.raised # NoError THEN cls
                    ELSE IF created
                    THEN Bind(cls, self.func_name,
                              [r.standin EXCEPT !.obj = declarations.pc + 1])
                    ELSE Bind(Mutated(cls, r.standin), self.func_name, r.standin)
          /\ last' = Op(self.decorator, NoInputs, r.raised, NoVariant, NoReply, << >>)
    /\ declarations' = [declarations EXCEPT !.pc = @ + 1]
    /\ cls_dict' = ClassDict(cls')
    /\ UNCHANGED <<xml, decorated, bind_error, def_interfaces,
                   def_methods, def_properties, registration, owned_names, exported,
                   pstate, instances, failed_calls, history, app>>

NextName == Decorate

SpecName == InitName /\ [][NextName]_vars

-----------------------------------------------------------------------------
(* A class body that declares the accessors of one property: Property on a *)
(* getter, the setter and getter decorators of the descriptor, and the     *)
(* descriptor built from a setter alone.                                   *)

MaxDecorators == 3

\* the schema's only property; function a is named A by generate_name
BodyXml == XmlOf(<<"I1">>, {<<"I1", "property", <<"A">>>>})

\* @Property() def a, @Property(name="A") def e, a = DBusProperty("A", None,
\* None, True, True, setter_func=f), and @x.setter def y, @x.getter def y
BodyDecorations ==
    {Decorator("Property", NoName, None, TRUE, TRUE, <<"a">>),
     Decorator("Property", <<"A">>, None, TRUE, TRUE, <<"e">>)}
    \cup {Decorator("DBusProperty", <<"A">>, None, TRUE, TRUE, f) : f \in {<<"a">>, <<"e">>}}
    \cup {Accessor(d, x, y) : d \in {"setter", "getter"}, x \in {<<"a">>, <<"e">>}, y \in {<<"a">>, <<"e">>}}

InitBody ==
    /\ xml = BodyXml
    /\ cls = << >>
    /\ \E body \in SeqsUpTo(BodyDecorations, MaxDecorators) :
            declarations = [body |-> body, pc |-> 0]
    /\ history = NoHistory
    /\ app = PlayerApp__init__
    /\ instances = {}
    /\ InitRuntime

NextBody == Decorate \/ DBusTemplateCall

SpecBody == InitBody /\ [][NextBody]_vars

-----------------------------------------------------------------------------
(* The player behind the demo service: PlayerApp's track list and current  *)
(* track, as the window and the service drive them.                        *)

MaxTracks == 2

Tracks == {"dummy:1", "dummy:2"}

\* the numbers the window's text field and next / prev hand to switch_track
TrackIds == (0 - MaxTracks - 1)..(MaxTracks + 1)

\* list[i] of Python: a negative index counts from the end of the list
getitem(list, i) ==
    IF 0 <= i /\ i < Len(list) THEN [raised |-> NoError, item |-> list[i + 1]]
    ELSE IF i < 0 /\ 0 - Len(list) <= i
    THEN [raised |-> NoError, item |-> list[Len(list) + i + 1]]
    ELSE [raised |-> Raise("IndexError", "list index out of range", None, None, None),
          item |-> None]

\* the index of the first track of the list with the current track's uri;
\* is_none says that the function returned None
find_current_track_in_tracklist(self) ==
    LET found == {i \in 0..(Len(self.tracklist) - 1) :
                     self.tracklist[i + 1] = self.current_track}
    IN IF self.current_track = None \/ found = {}
       THEN [is_none |-> TRUE, index |-> 0]
       ELSE [is_none |-> FALSE, index |-> CHOOSE i \in found : \A j \in found : i <= j]

switch_track(self, track_id) ==
    IF track_id >= Len(self.tracklist)
    THEN [raised |-> NoError, self |-> self]
    ELSE LET track == getitem(self.tracklist, track_id)
         IN [raised |-> track.raised,
             self |-> IF track.raised = NoError
                      THEN [self EXCEPT !.current_track = track.item]
                      ELSE self]

\* the window's submit button, with the number typed into the text field
SwitchTrack ==
    /\ last = NoOp
    /\ \E track_id \in TrackIds :
         LET r == switch_track(app, track_id)
         IN /\ app' = r.self
            /\ last' = Op("switch_track", [NoInputs EXCEPT !.value = track_id],
                          r.raised, NoVariant, NoReply, << >>)
    /\ UNCHANGED <<declarations, xml, cls, cls_dict, decorated, bind_error, def_interfaces,
                   def_methods, def_properties, registration, owned_names, exported,
                   pstate, instances, failed_calls, history>>

PlayerNext ==
    /\ last = NoOp
    /\ LET found == find_current_track_in_tracklist(app)
           current_track_idx == IF found.is_none THEN -1 ELSE found.index
           r == switch_track(app, current_track_idx + 1)
       IN /\ app' = r.self
          /\ last' = Op("next", [NoInputs EXCEPT !.value = current_track_idx + 1],
                        r.raised, NoVariant, NoReply, << >>)
    /\ UNCHANGED <<declarations, xml, cls, cls_dict, decorated, bind_error, def_interfaces,
                   def_methods, def_properties, registration, owned_names, exported,
                   pstate, instances, failed_calls, history>>

PlayerPrev ==
    /\ last = NoOp
    /\ LET found == find_current_track_in_tracklist(app)
           current_track_idx == IF found.is_none THEN 1 ELSE found.index
           r == switch_track(app, current_track_idx - 1)
       IN /\ app' = r.self
          /\ last' = Op("prev", [NoInputs EXCEPT !.value = current_track_idx - 1],
                        r.raised, NoVariant, NoReply, << >>)
    /\ UNCHANGED <<declarations, xml, cls, cls_dict, decorated, bind_error, def_interfaces,
                   def_methods, def_properties, registration, owned_names, exported,
                   pstate, instances, failed_calls, history>>

\* app.tracklist = value, from the window's text buffer or the service
SetTracklist ==
    /\ last = NoOp
    /\ \E value \in SeqsUpTo(Tracks, MaxTracks) :
         /\ app' = [app EXCEPT !.tracklist = value]
         /\ last' = Op("tracklist.setter", NoInputs, NoError, NoVariant, NoReply, << >>)
    /\ UNCHANGED <<declarations, xml, cls, cls_dict, decorated, bind_error, def_interfaces,
                   def_methods, def_properties, registration, owned_names, exported,
                   pstate, instances, failed_calls, history>>

\* switch_track_by_uri with a well-formed uri: the track need not be listed
SwitchTrackByUri ==
    /\ last = NoOp
    /\ \E track_uri \in Tracks :
         /\ app' = [app EXCEPT !.current_track = track_uri]
         /\ last' = Op("switch_track_by_uri", NoInputs, NoError, NoVariant, NoReply, << >>)
    /\ UNCHANGED <<declarations, xml, cls, cls_dict, decorated, bind_error, def_interfaces,
                   def_methods, def_properties, registration, owned_names, exported,
                   pstate, instances, failed_calls, history>>

InitPlayer ==
    /\ xml = XmlOf(<< >>, {})
    /\ cls = << >>
    /\ declarations = NoDeclarations
    /\ history = NoHistory
    /\ app = PlayerApp__init__
    /\ instances = {}
    /\ InitRuntime

NextPlayer ==
    \/ SwitchTrack
    \/ PlayerNext
    \/ PlayerPrev
    \/ SetTracklist
    \/ SwitchTrackByUri
    \/ Return

SpecPlayer == InitPlayer /\ [][NextPlayer]_vars

SpecBind == InitBind /\ [][NextBind]_vars

-----------------------------------------------------------------------------
(* Properties of the binding, stated over the schema and the class body.   *)

MembersOf(f, kind) == CASE kind = "method" -> f.methods
                        [] kind = "signal" -> f.signals
                        [] OTHER -> f.properties

\* the (interface, member) pairs the document declares for a kind
Declared(kind) ==
    UNION {{<<f.name, m.name>> : m \in Range(MembersOf(f, kind))} : f \in Range(xml)}

\* the interfaces that declare a member of that kind and name
Owners(kind, n) == {f.name : f \in {g \in Range(xml) :
                                       \E m \in Range(MembersOf(g, kind)) : m.name = n}}

\* the (interface, member) a stand-in is written for: its explicit interface,
\* or the only interface declaring its name; no interface when there is no
\* such interface or more than one
TargetOf(s) ==
    IF s.interface # None THEN <<s.interface, s.name>>
    ELSE IF Cardinality(Owners(s.type, s.name)) = 1
    THEN <<CHOOSE i \in Owners(s.type, s.name) : TRUE, s.name>>
    ELSE <<None, s.name>>

\* the positions in the class body of the stand-ins written for a member
HandlersOf(kind, pair) ==
    {k \in DOMAIN cls : cls[k].type = kind /\ TargetOf(cls[k]) = pair}

\* exactly one stand-in for each declared member and no other stand-in
FullyImplementing ==
    /\ \A kind \in Kinds : \A pair \in Declared(kind) :
          Cardinality(HandlersOf(kind, pair)) = 1
    /\ \A k \in DOMAIN cls : TargetOf(cls[k]) \in Declared(cls[k].type)

\* the declared members no stand-in is written for
Lacking ==
    {q \in Kinds \X (Range(BindInterfaces) \X {"A", "B", "S", "P"}) :
        q[2] \in Declared(q[1]) /\ HandlersOf(q[1], q[2]) = {}}

\* a stand-in the scan cannot accept: its target is not declared, or an
\* earlier stand-in of its kind has the same target
Rejected(k) ==
    \/ TargetOf(cls[k]) \notin Declared(cls[k].type)
    \/ \E j \in 1..(k - 1) : cls[j].type = cls[k].type /\ TargetOf(cls[j]) = TargetOf(cls[k])

\* the (interface, member) keys of a two-level table
Keys(table) == UNION {{<<i, n>> : n \in DOMAIN table[i]} : i \in DOMAIN table}

\* the positions of the class attributes that became signal proxies
Proxies == {k \in DOMAIN cls_dict : cls_dict[k].slot = "partialmethod"}

\* C1: once the decorator has run on a class that declares exactly one
\* stand-in for each declared (interface, member) of each kind and no other
\* stand-in, the class is bound, the methods and properties tables hold
\* exactly the declared methods and properties, each entry carrying the
\* member's info and the one stand-in written for it, the signal proxies are
\* exactly one per declared signal, and the interface list is the document's.
C1_BindingComplete ==
    (decorated # "pending" /\ FullyImplementing) =>
        /\ decorated = "bound"
        /\ bind_error = NoError
        /\ Keys(def_methods) = Declared("method")
        /\ Keys(def_properties) = Declared("property")
        /\ \A q \in Keys(def_methods) :
              /\ def_methods[q[1]][q[2]].info.name = q[2]
              /\ HandlersOf("method", q) = {def_methods[q[1]][q[2]].handler}
        /\ \A q \in Keys(def_properties) :
              /\ def_properties[q[1]][q[2]].info.name = q[2]
              /\ HandlersOf("property", q) = {def_properties[q[1]][q[2]].handler}
              /\ cls_dict[def_properties[q[1]][q[2]].handler].standin.interface = q[1]
        /\ {<<cls_dict[k].signal_interface, cls_dict[k].signal_info.name>> : k \in Proxies}
              = Declared("signal")
        /\ \A k \in Proxies :
              HandlersOf("signal", <<cls_dict[k].signal_interface,
                                     cls_dict[k].signal_info.name>>) = {k}
        /\ def_interfaces = [k \in DOMAIN xml |-> xml[k].name]

\* a bound class whose one interface declares two methods, both in the table
C1_Witness ==
    /\ decorated = "bound"
    /\ FullyImplementing
    /\ \E i \in DOMAIN def_methods : Cardinality(DOMAIN def_methods[i]) = 2

Duplicates ==
    {p \in (DOMAIN cls) \X (DOMAIN cls) :
        /\ p[1] < p[2]
        /\ cls[p[1]].type = cls[p[2]].type
        /\ TargetOf(cls[p[1]]) = TargetOf(cls[p[2]])
        /\ TargetOf(cls[p[1]])[1] # None}

\* C3: a class that declares two stand-ins of the same kind resolving to the
\* same (interface, member) fails to bind, whichever of the two comes first in
\* the class body, and no table is stored.
C3_DuplicateRejected ==
    (decorated # "pending" /\ Duplicates # {}) =>
        /\ decorated = "failed"
        /\ bind_error # NoError
        /\ def_methods = EmptyDict /\ def_properties = EmptyDict /\ def_interfaces = << >>

\* a declared member with two stand-ins, the explicit one scanned first and
\* the implicit one second, rejected as a second handler
C3_Witness ==
    /\ decorated = "failed"
    /\ bind_error.msg = "has a handler method but is either not in the XML or there are multiple handlers"
    /\ \E p \in Duplicates : /\ cls[p[1]].interface # None
                             /\ cls[p[2]].interface = None
                             /\ TargetOf(cls[p[1]]) \in Declared(cls[p[1]].type)

-----------------------------------------------------------------------------
(* Properties of the operations on instances, stated over the record of    *)
(* the operation that has just run.                                        *)

\* the property stand-in of the class body for a property name
PropertyOf(name) == CHOOSE st \in Range(cls) : st.type = "property" /\ st.name = name

SetOps == {"on_set_property", "DBusProperty.__set__"}

Registered(obj) == registration[obj] # Unregistered

IsPropertiesChanged(e, obj, interface) ==
    /\ e.signal = "PropertiesChanged"
    /\ e.interface = "org.freedesktop.DBus.Properties"
    /\ e.connection = registration[obj].connection
    /\ e.path = registration[obj].path
    /\ e.parameters.interface = interface

\* C4: a write to a property that has only a getter, through the descriptor
\* or through an inbound property set, ends with the read-only error, leaves
\* every instance's property values as they were and emits no event, whatever
\* the property's emit_changed and emit_with_value are.
C4_ReadOnlyWrite ==
    [][(last'.op \in SetOps /\ ~PropertyOf(last'.inputs.member).has_setter) =>
          /\ last'.raised.exc = "TypeError"
          /\ last'.raised.msg = "this property is read-only"
          /\ last'.events = << >>
          /\ last'.result = NoVariant
          /\ pstate' = pstate]_vars

\* an inbound set of a getter-only property that notifies with its value, on
\* a registered instance, refused
C4_Witness ==
    /\ last.op = "on_set_property"
    /\ Registered(last.inputs.obj)
    /\ ~PropertyOf(last.inputs.member).has_setter
    /\ PropertyOf(last.inputs.member).emit_changed
    /\ PropertyOf(last.inputs.member).emit_with_value
    /\ last.raised.msg = "this property is read-only"

\* C5: a set of a writable property on a registered instance that ends
\* without an error has emitted exactly one PropertiesChanged event carrying
\* the written value when emit_changed and emit_with_value are both set,
\* exactly one listing the property as invalidated and carrying no value when
\* only emit_changed is set, and no event when emit_changed is not set.
C5_SetNotifies ==
    (last.op \in SetOps /\ last.raised = NoError /\ Registered(last.inputs.obj)) =>
        LET prop == PropertyOf(last.inputs.member)
            name == last.inputs.member
        IN /\ prop.has_setter
           /\ IF prop.emit_changed /\ prop.emit_with_value
              THEN /\ Len(last.events) = 1
                   /\ IsPropertiesChanged(last.events[1], last.inputs.obj,
                                          last.inputs.interface)
                   /\ DOMAIN last.events[1].parameters.changed = {name}
                   /\ last.events[1].parameters.changed[name] =
                         Variant("i", last.inputs.value)
                   /\ last.events[1].parameters.invalidated = << >>
              ELSE IF prop.emit_changed
              THEN /\ Len(last.events) = 1
                   /\ IsPropertiesChanged(last.events[1], last.inputs.obj,
                                          last.inputs.interface)
                   /\ last.events[1].parameters.changed = EmptyDict
                   /\ last.events[1].parameters.invalidated = <<name>>
              ELSE last.events = << >>

\* a descriptor set of a property that notifies without its value, on a
\* registered instance
C5_Witness ==
    /\ last.op = "DBusProperty.__set__"
    /\ last.raised = NoError
    /\ Registered(last.inputs.obj)
    /\ PropertyOf(last.inputs.member).emit_changed
    /\ ~PropertyOf(last.inputs.member).emit_with_value
    /\ Len(last.events) = 1

\* the names of a request that the interface declares as properties
AllDeclared(interface, names) ==
    \A k \in DOMAIN names : <<interface, names[k]>> \in Declared("property")

Notifying(name) == PropertyOf(name).emit_changed
WithValue(name) == PropertyOf(name).emit_changed /\ PropertyOf(name).emit_with_value
Invalidating(name) == PropertyOf(name).emit_changed /\ ~PropertyOf(name).emit_with_value

\* the one event of a properties_changed call: the requested names with
\* emit_changed set and no others, each with the getter's current value or in
\* the invalidated list as its emit_with_value says
BatchEvent(op) ==
    /\ op.raised = NoError
    /\ Len(op.events) = 1
    /\ IsPropertiesChanged(op.events[1], op.inputs.obj, op.inputs.interface)
    /\ DOMAIN op.events[1].parameters.changed =
          {n \in Range(op.inputs.names) : WithValue(n)}
    /\ \A n \in DOMAIN op.events[1].parameters.changed :
          op.events[1].parameters.changed[n] =
             Variant("i", pstate[op.inputs.obj][<<op.inputs.interface, n>>])
    /\ op.events[1].parameters.invalidated = SelectSeq(op.inputs.names, Invalidating)

\* C6 (as the spec states it): properties_changed called with names the
\* interface declares emits exactly one event covering the names with
\* emit_changed set.
C6_OneEventAlways ==
    (last.op = "properties_changed" /\ decorated = "bound"
        /\ AllDeclared(last.inputs.interface, last.inputs.names)) => BatchEvent(last)

\* C6 (amended): properties_changed called with names the interface declares,
\* on a registered instance and for an interface that declares at least one
\* property, emits exactly one event covering the names with emit_changed
\* set, split by emit_with_value; on an instance that is not registered, or
\* for an interface without a property, it raises and emits nothing.
C6_OneEventWhenRegistered ==
    (last.op = "properties_changed" /\ decorated = "bound"
        /\ AllDeclared(last.inputs.interface, last.inputs.names)) =>
        IF /\ Registered(last.inputs.obj)
           /\ \E q \in Declared("property") : q[1] = last.inputs.interface
        THEN BatchEvent(last)
        ELSE last.raised # NoError /\ last.events = << >>

\* a batch of two different declared names on a registered instance, one
\* that does not notify and one that does
C6_Witness ==
    /\ last.op = "properties_changed"
    /\ Registered(last.inputs.obj)
    /\ Len(last.inputs.names) = 2
    /\ AllDeclared(last.inputs.interface, last.inputs.names)
    /\ ~Notifying(last.inputs.names[1])
    /\ Notifying(last.inputs.names[2])
    /\ Len(last.events) = 1

\* C7: properties_changed called with names of which at least one is not a
\* property the interface declares raises and emits no event, wherever that
\* name stands in the request; on a registered instance of a bound class the
\* error is the one naming the first such name.
C7_UndeclaredName ==
    (last.op = "properties_changed"
        /\ ~AllDeclared(last.inputs.interface, last.inputs.names)) =>
        /\ last.raised # NoError
        /\ last.events = << >>
        /\ (Registered(last.inputs.obj) /\ last.inputs.interface \in DOMAIN def_properties) =>
              LET k == CHOOSE j \in DOMAIN last.inputs.names :
                          /\ <<last.inputs.interface, last.inputs.names[j]>>
                                \notin Declared("property")
                          /\ \A h \in 1..(j - 1) :
                                <<last.inputs.interface, last.inputs.names[h]>>
                                   \in Declared("property")
              IN /\ last.raised.msg = "does not define a property"
                 /\ last.raised.name = last.inputs.names[k]

\* a request on a registered instance whose first name is declared and
\* notifies with its value and whose second name is not declared
C7_Witness ==
    /\ last.op = "properties_changed"
    /\ Registered(last.inputs.obj)
    /\ Len(last.inputs.names) = 2
    /\ <<last.inputs.interface, last.inputs.names[1]>> \in Declared("property")
    /\ WithValue(last.inputs.names[1])
    /\ <<last.inputs.interface, last.inputs.names[2]>> \notin Declared("property")
    /\ last.raised.msg = "does not define a property"

\* the output signatures the document declares for a method
DeclaredOut(interface, method_name) ==
    LET f == CHOOSE g \in Range(xml) : g.name = interface
    IN (CHOOSE m \in Range(f.methods) : m.name = method_name).out_args

\* the handler returned as many values as the method declares
Fitting(inputs) ==
    \/ DeclaredOut(inputs.interface, inputs.member) = << >>
    \/ /\ inputs.handler.kind \in {"value", "tuple"}
       /\ Len(inputs.handler.vals) = Len(DeclaredOut(inputs.interface, inputs.member))

\* C8: an inbound method call whose handler raises is answered with an error
\* reply tagged with the interface name of the call and carrying the
\* exception's message; the call changes neither the tables nor any
\* registration; and a call on an object on which a handler has raised before
\* is dispatched and answered with the values its handler returns.
C8_HandlerFailure ==
    [][(last'.op = "on_method_call") =>
          /\ UNCHANGED <<cls_dict, def_interfaces, def_methods, def_properties,
                         registration, owned_names, exported, pstate, app>>
          /\ last'.inputs.handler = Raised =>
                /\ last'.reply.kind = "error"
                /\ last'.reply.interface = last'.inputs.interface
                /\ last'.reply.message = last'.raised.msg
                /\ last'.reply.message = "handler failed"
          /\ (last'.inputs.obj \in failed_calls /\ last'.inputs.handler # Raised
                 /\ Fitting(last'.inputs)) =>
                /\ last'.raised = NoError
                /\ last'.reply.kind = "value"
                /\ last'.reply.values =
                      IF DeclaredOut(last'.inputs.interface, last'.inputs.member) = << >>
                      THEN << >> ELSE last'.inputs.handler.vals]_vars

\* a call answered with its handler's value on an object on which an earlier
\* call's handler raised
C8_Witness ==
    /\ last.op = "on_method_call"
    /\ last.inputs.obj \in failed_calls
    /\ last.inputs.handler.kind = "value"
    /\ last.reply.kind = "value"
    /\ last.reply.values = last.inputs.handler.vals

\* C9: an inbound property set that fails, by the setter raising or by the
\* read-only check, does not raise out of on_set_property and is answered
\* with an error reply carrying the interface name and the message.
C9_SetFailureCaught ==
    (last.op = "on_set_property"
        /\ (last.inputs.setter \in {"raise", "store_raise"}
               \/ ~PropertyOf(last.inputs.member).has_setter)) =>
        /\ last.raised = NoError
        /\ last.reply.kind = "error"
        /\ last.reply.interface = last.inputs.interface

\* C10: on an instance of a bound class the first register_object records the
\* connection and path it is given; every later one raises "can only be
\* called once" and changes no registration, no export and no owned name; and
\* no step changes a registration that has been recorded.
C10_RegisterOnce ==
    [][/\ \A o \in Objs : Registered(o) => registration'[o] = registration[o]
       /\ (last'.op = "register_object" /\ decorated = "bound") =>
             LET o == last'.inputs.obj IN
             IF ~Registered(o)
             THEN /\ registration'[o] = [connection |-> last'.inputs.connection,
                                         path |-> last'.inputs.path]
                  /\ \A x \in Objs \ {o} : registration'[x] = registration[x]
             ELSE /\ last'.raised.exc = "TypeError"
                  /\ last'.raised.msg = "register_object can only be called once for an object"
                  /\ UNCHANGED <<registration, exported, owned_names, app>>]_vars

\* a second register_object with another connection and another path, refused
C10_Witness ==
    /\ last.op = "register_object"
    /\ last.raised.msg = "register_object can only be called once for an object"
    /\ last.inputs.connection # registration[last.inputs.obj].connection
    /\ last.inputs.path # registration[last.inputs.obj].path

-----------------------------------------------------------------------------
(* Properties of the resolution of a stand-in's interface.                 *)

\* the scan gets as far as stand-in k: it rejects no earlier stand-in
Reached(k) == \A j \in 1..(k - 1) : ~Rejected(j)

\* stand-in k has been bound as the handler of the member of its name on
\* interface i: its class attribute is rewritten for i and, once the tables
\* are stored, the entry of (i, name) is this stand-in
BoundTo(k, i) ==
    CASE cls[k].type = "method" ->
            /\ cls_dict[k].slot = "function"
            /\ decorated = "bound" =>
                  /\ <<i, cls[k].name>> \in Keys(def_methods)
                  /\ def_methods[i][cls[k].name].handler = k
      [] cls[k].type = "signal" ->
            /\ cls_dict[k].slot = "partialmethod"
            /\ cls_dict[k].signal_interface = i
            /\ cls_dict[k].signal_info.name = cls[k].name
      [] OTHER ->
            /\ cls_dict[k].standin.interface = i
            /\ decorated = "bound" =>
                  /\ <<i, cls[k].name>> \in Keys(def_properties)
                  /\ def_properties[i][cls[k].name].handler = k

\* the decorator raised msg for stand-in k
FailedAt(k, msg) ==
    /\ decorated = "failed"
    /\ bind_error.exc = "TypeError"
    /\ bind_error.msg = msg
    /\ bind_error.type = cls[k].type
    /\ bind_error.name = cls[k].name

\* C11: for every stand-in the scan reaches: without an explicit interface,
\* a name no interface declares for its kind fails the binding with "not
\* defined in any interface", a name two or more interfaces declare fails it
\* with the demand for an explicit interface, and a name exactly one interface
\* declares is bound to that interface (unless it is a second handler); with
\* an explicit interface that declares the name it is bound to that
\* interface, however many interfaces declare the name.
C11_InterfaceResolution ==
    decorated # "pending" =>
        \A k \in DOMAIN cls : Reached(k) =>
            LET own == Owners(cls[k].type, cls[k].name) IN
            IF cls[k].interface = None
            THEN /\ own = {} => FailedAt(k, "not defined in any interface")
                 /\ Cardinality(own) >= 2 => FailedAt(k, "defined in multiple interfaces")
                 /\ (Cardinality(own) = 1 /\ ~Rejected(k)) =>
                       BoundTo(k, CHOOSE i \in own : TRUE)
            ELSE (<<cls[k].interface, cls[k].name>> \in Declared(cls[k].type)
                     /\ ~Rejected(k)) => BoundTo(k, cls[k].interface)

\* a name two interfaces declare: the stand-in that names its interface is
\* bound, the one after it that does not is refused
C11_Witness ==
    /\ decorated = "failed"
    /\ bind_error.msg = "defined in multiple interfaces"
    /\ Len(cls) = 2
    /\ cls[1].interface # None /\ cls[2].interface = None
    /\ cls[1].name = cls[2].name /\ cls[1].type = cls[2].type
    /\ Cardinality(Owners(cls[1].type, cls[1].name)) = 2
    /\ cls_dict[1].slot = "function"

\* the names of the interfaces the document holds
InterfaceNames == {f.name : f \in Range(xml)}

\* C12: for every stand-in the scan reaches whose interface is resolved: if
\* that interface is not one of the document's, binding fails with "interface
\* not defined"; if it is but does not declare the stand-in's name for its
\* kind, binding fails with "not defined for interface"; either way the
\* stand-in's class attribute is left as it was and no table is stored.
C12_UnknownTarget ==
    decorated # "pending" =>
        \A k \in DOMAIN cls :
            LET t == TargetOf(cls[k]) IN
            (t[1] # None /\ t \notin Declared(cls[k].type)) =>
                /\ decorated = "failed"
                /\ def_methods = EmptyDict /\ def_properties = EmptyDict
                /\ def_interfaces = << >>
                /\ cls_dict[k].slot = "standin"
                /\ cls_dict[k].standin = cls[k]
                /\ Reached(k) =>
                      /\ FailedAt(k, IF t[1] \notin InterfaceNames
                                     THEN "interface not defined"
                                     ELSE "not defined for interface")
                      /\ bind_error.interface = t[1]

\* a stand-in naming an interface of the document for a member that only the
\* other interface declares, after a stand-in that was accepted
C12_Witness ==
    /\ decorated = "failed"
    /\ bind_error.msg = "not defined for interface"
    /\ Len(cls) = 2
    /\ cls_dict[1].slot # "standin"
    /\ cls[2].interface \in InterfaceNames
    /\ Owners(cls[2].type, cls[2].name) = InterfaceNames \ {cls[2].interface}

-----------------------------------------------------------------------------
(* Properties of the replies to inbound method calls.                      *)

\* C13: an inbound method call whose handler returns as many values as the
\* method declares outputs ends without an error and is answered with a
\* return-value reply: empty for no declared output whatever the handler
\* returned; the value v for one declared output, the same for a handler
\* that returns v and one that returns the tuple (v,); the elements of the
\* returned tuple in their order for several declared outputs.
C13_ReplyValues ==
    (last.op = "on_method_call" /\ last.inputs.handler # Raised /\ Fitting(last.inputs)) =>
        LET out == DeclaredOut(last.inputs.interface, last.inputs.member)
            returned == last.inputs.handler
        IN /\ last.raised = NoError
           /\ last.reply.kind = "value"
           /\ out = << >> => last.reply.values = << >>
           /\ Len(out) = 1 =>
                 /\ returned.kind = "value" => last.reply.values = <<returned.vals[1]>>
                 /\ returned.kind = "tuple" => last.reply.values = <<returned.vals[1]>>
           /\ Len(out) > 1 =>
                 /\ returned.kind = "tuple"
                 /\ Len(last.reply.values) = Len(out)
                 /\ \A k \in DOMAIN out : last.reply.values[k] = returned.vals[k]

\* a method with one declared output whose handler returned the bare value
C13_Witness ==
    /\ last.op = "on_method_call"
    /\ Len(DeclaredOut(last.inputs.interface, last.inputs.member)) = 1
    /\ last.inputs.handler.kind = "value"
    /\ last.reply.kind = "value"
    /\ last.reply.values = last.inputs.handler.vals

-----------------------------------------------------------------------------
(* Properties of the signal proxy.                                         *)

\* the argument signatures the document declares for a signal
DeclaredArgs(interface, signal_name) ==
    LET f == CHOOSE g \in Range(xml) : g.name = interface
    IN (CHOOSE m \in Range(f.signals) : m.name = signal_name).args

\* the values an emitter call hands on: what the emitter returned, or the
\* arguments of the call when it returned nothing
Sent(inputs) == IF inputs.handler.kind = "none" THEN inputs.arguments
                ELSE inputs.handler.vals

\* the emitter returned values, and not as many as it was called with
WrongLength(inputs) ==
    /\ inputs.handler.kind \in {"value", "tuple"}
    /\ Len(inputs.handler.vals) # Len(inputs.arguments)

\* the leading values of a list, as many as there are declared arguments,
\* each with the signature declared at its position
LeadingWrapped(values, declared) ==
    [k \in 1..Min(Len(values), Len(declared)) |-> Variant(declared[k], values[k])]

EmitterOf(name) == CHOOSE st \in Range(cls) : st.type = "signal" /\ st.name = name

\* the one broadcast of an emitter call goes out on the instance's
\* connection for its registered path, the interface the emitter was
\* resolved to and the signal's name
Addressed(op) ==
    /\ Len(op.events) = 1
    /\ op.events[1].connection = registration[op.inputs.obj].connection
    /\ op.events[1].path = registration[op.inputs.obj].path
    /\ op.events[1].interface = TargetOf(EmitterOf(op.inputs.member))[1]
    /\ op.events[1].signal = op.inputs.member

\* C20 (as the spec states it): every broadcast of a signal emitter carries
\* exactly one value per declared argument, in declared order, addressed to
\* the instance's path and the emitter's interface, whatever the number of
\* arguments of the call.
C20_OneValuePerDeclared ==
    (last.op = "handle_signal_method" /\ last.events # << >>) =>
        LET declared == DeclaredArgs(last.inputs.interface, last.inputs.member) IN
        /\ Addressed(last)
        /\ Len(last.events[1].parameters.values) = Len(declared)
        /\ \A k \in DOMAIN declared :
              last.events[1].parameters.values[k].signature = declared[k]

\* C20 (amended): every broadcast of a signal emitter is addressed to the
\* instance's path and the emitter's interface and carries the values in
\* order, each with the signature declared at its position; it carries one
\* value per declared argument when the call hands on at least as many values
\* as the signal declares (the rest is dropped), and as many values as the
\* call hands on when these are fewer.
C20_BroadcastShape ==
    (last.op = "handle_signal_method" /\ last.events # << >>) =>
        LET declared == DeclaredArgs(last.inputs.interface, last.inputs.member)
            carried == last.events[1].parameters.values
        IN /\ Addressed(last)
           /\ Len(carried) = Min(Len(Sent(last.inputs)), Len(declared))
           /\ \A k \in DOMAIN carried :
                 /\ carried[k].signature = declared[k]
                 /\ unpack(carried[k]) = Sent(last.inputs)[k]

\* a broadcast of the signal that declares two arguments of different types,
\* from a call with two arguments
C20_Witness ==
    /\ last.op = "handle_signal_method"
    /\ DeclaredArgs(last.inputs.interface, last.inputs.member) = <<"i", "s">>
    /\ Len(last.inputs.arguments) = 2
    /\ Len(last.events) = 1
    /\ last.events[1].interface = "I2"
    /\ Len(last.events[1].parameters.values) = 2

-----------------------------------------------------------------------------
(* Properties of the failure paths of on_method_call.                      *)

\* C18 (as the spec states it): when a method handler raises, the error
\* reply is sent, and the exception leaves on_method_call if and only if a
\* trace hook is installed; without one on_method_call returns normally.
C18_ReraiseOnlyWithHook ==
    (last.op = "on_method_call" /\ last.inputs.handler = Raised) =>
        /\ last.reply.kind = "error"
        /\ (last.raised # NoError) <=> (last.inputs.gettrace # None)

\* C19 (as the spec states it): every inbound method call is answered with
\* one reply, an error reply when the handler raised and a return-value reply
\* otherwise, also when the handler returns another number of values than
\* the method declares outputs.
C19_AlwaysOneReply ==
    last.op = "on_method_call" =>
        last.reply.kind = IF last.inputs.handler = Raised THEN "error" ELSE "value"

\* C19 (amended): an inbound method call is answered with an error reply when
\* the handler raised and with a return-value reply when it returned as many
\* values as the method declares outputs (or anything, for a method without
\* outputs); when it returned another number of values, building the reply
\* raises TypeError out of on_method_call and no reply is sent.
C19_ReplyUnlessMisfit ==
    last.op = "on_method_call" =>
        IF last.inputs.handler = Raised
        THEN last.reply.kind = "error" /\ last.reply.values = << >>
        ELSE IF Fitting(last.inputs)
        THEN last.reply.kind = "value" /\ last.raised = NoError
        ELSE last.reply = NoReply /\ last.raised.exc = "TypeError"

\* a handler that returned one value for a method declaring two outputs,
\* left without a reply
C19_Witness ==
    /\ last.op = "on_method_call"
    /\ Len(DeclaredOut(last.inputs.interface, last.inputs.member)) = 2
    /\ last.inputs.handler.kind = "tuple"
    /\ Len(last.inputs.handler.vals) = 1
    /\ last.reply = NoReply
    /\ last.raised.exc = "TypeError"

-----------------------------------------------------------------------------
(* Properties of property declarations.                                    *)

\* the positions of the properties of the class body that have a setter and
\* no getter
SetterOnly == {k \in DOMAIN cls : /\ cls[k].type = "property"
                                  /\ cls[k].has_setter /\ ~cls[k].has_getter}

\* C15: once the decorator has run on a class that declares a property with
\* a setter and no getter, the binding has failed.
C15_SetterOnlyRejected ==
    (decorated # "pending" /\ SetterOnly # {}) => decorated = "failed"


\* the function name with a leading get_ taken off
WithoutGet(func_name) ==
    IF startswith(func_name, <<"g", "e", "t", "_">>)
    THEN SubSeq(func_name, 5, Len(func_name))
    ELSE func_name

\* C16: a property declared by the Property decorator is named by the
\* decorator's explicit name when it has one, and otherwise by the PascalCase
\* form of the function's name with a leading get_ removed.
C16_PropertyNameWithoutGet ==
    \A k \in DOMAIN cls :
        declarations.body[k].decorator = "Property" =>
            cls[k].name = IF declarations.body[k].name # NoName
                          THEN declarations.body[k].name
                          ELSE to_pascal_case(WithoutGet(declarations.body[k].func_name))


\* the operations the transport dispatches to a handler
Dispatches == {"on_method_call", "on_get_property", "on_set_property"}

\* C17: when the binding of the class has failed, the class holds no interface
\* list and no dispatch tables, no object is exported and no instance has a
\* connection or path recorded, no inbound call, read or write is running,
\* and a register_object call has been refused for the lack of a binding.
C17_FailedBindingDispatchesNothing ==
    decorated = "failed" =>
        /\ def_interfaces = << >>
        /\ def_methods = EmptyDict
        /\ def_properties = EmptyDict
        /\ exported = {}
        /\ \A obj \in Objs : ~Registered(obj)
        /\ last.op \notin Dispatches
        /\ last.op = "register_object" =>
               /\ last.raised.exc = "TypeError"
               /\ last.raised.msg =
                      "register_object must be called for object decorated with DBusTemplate"

C17_Witness ==
    /\ decorated = "failed"
    /\ bind_error # NoError
    /\ last.op = "register_object"
    /\ last.raised.exc = "TypeError"
    /\ ~Registered(last.inputs.obj)


\* the uniqueness map the decorator builds for a kind
UniqueMap(kind) == UniqueOf(xml, kind, EmptyDict)

\* C21: once the decorator has run, for each kind the uniqueness map has a key
\* for exactly the names some interface declares; a name's entry is an
\* interface exactly when that interface alone declares it and the not-unique
\* mark exactly when two or more interfaces declare it; and a recurring name
\* does not fail the binding of a class that has one stand-in for every member.
C21_UniquenessMap ==
    decorated # "pending" =>
        /\ \A kind \in Kinds :
              /\ DOMAIN UniqueMap(kind) = {q[2] : q \in Declared(kind)}
              /\ \A n \in DOMAIN UniqueMap(kind) :
                    /\ \A i \in InterfaceNames :
                          UniqueMap(kind)[n] = i <=> Owners(kind, n) = {i}
                    /\ UniqueMap(kind)[n] = _NotUnique <=>
                          Cardinality(Owners(kind, n)) >= 2
        /\ FullyImplementing => decorated = "bound"

\* a method three interfaces declare is marked not unique
C21_Witness ==
    /\ decorated # "pending"
    /\ Owners("method", "A") = Range(CatalogInterfaces)
    /\ UniqueMap("method")["A"] = _NotUnique


\* the setter outcomes that end in an exception
FailingSetters == {"raise", "store_raise"}

\* C22: a property set, inbound or through the descriptor, whose setter
\* raises has emitted no event and ends with the setter's exception, no
\* result returned; so an event of a set is emitted only after the setter
\* has returned.
C22_SetterBeforeNotification ==
    (last.op \in SetOps /\ last.inputs.setter \in FailingSetters) =>
        /\ last.events = << >>
        /\ last.raised.exc = "Exception"
        /\ last.raised.msg = "handler failed"
        /\ last.result = NoVariant

\* an inbound set of a notifying property of a registered instance, the
\* setter raising
C22_Witness ==
    /\ last.op = "on_set_property"
    /\ last.inputs.setter = "raise"
    /\ Registered(last.inputs.obj)
    /\ PropertyOf(last.inputs.member).emit_changed
    /\ last.raised.msg = "handler failed"


\* a set that ended without an error, of a property with emit_changed set
Notified(call) ==
    /\ call.op \in SetOps
    /\ call.raised = NoError
    /\ PropertyOf(call.inputs.member).emit_changed

\* the event is the PropertiesChanged of that set
EventOfSet(e, call) ==
    /\ IsPropertiesChanged(e, call.inputs.obj, call.inputs.interface)
    /\ IF PropertyOf(call.inputs.member).emit_with_value
       THEN /\ DOMAIN e.parameters.changed = {call.inputs.member}
            /\ e.parameters.changed[call.inputs.member] = Variant("i", call.inputs.value)
            /\ e.parameters.invalidated = << >>
       ELSE /\ e.parameters.changed = EmptyDict
            /\ e.parameters.invalidated = <<call.inputs.member>>

\* C23: when the calls so far are inbound property sets on a registered
\* instance, the events broadcast so far are, one for one and in order, the
\* PropertiesChanged events of the sets that ended without an error on a
\* property with emit_changed set; this holds already while the latest set
\* has not yet returned to the main loop.
C23_EventsFollowSets ==
    (history.on /\ \A k \in DOMAIN history.calls :
                      /\ history.calls[k].op = "on_set_property"
                      /\ Registered(history.calls[k].inputs.obj)) =>
        LET notified == SelectSeq(history.calls, Notified) IN
        /\ Len(history.sent) = Len(notified)
        /\ \A k \in DOMAIN notified : EventOfSet(history.sent[k], notified[k])
        /\ last.op = "on_set_property" =>
              /\ history.calls # << >>
              /\ history.calls[Len(history.calls)].inputs = last.inputs

\* a set of P to 1, then a set of P to 0 that has not yet returned: two
\* events, carrying 1 and 0 in that order
C23_Witness ==
    /\ history.on
    /\ Len(history.calls) = 2
    /\ history.calls[1].inputs.member = "P" /\ history.calls[1].inputs.value = 1
    /\ history.calls[1].raised = NoError
    /\ history.calls[2].inputs.member = "P" /\ history.calls[2].inputs.value = 0
    /\ history.calls[2].raised = NoError
    /\ last.op = "on_set_property"
    /\ Len(history.sent) = 2
    /\ history.sent[1].parameters.changed["P"] = Variant("i", 1)
    /\ history.sent[2].parameters.changed["P"] = Variant("i", 0)


\* the event tells that the property of that interface has changed
About(e, interface, name) ==
    /\ e.signal = "PropertiesChanged"
    /\ e.parameters.interface = interface
    /\ name \in DOMAIN e.parameters.changed \/ name \in Range(e.parameters.invalidated)

\* a properties_changed call that ended without an error and named the
\* property the set before it was of
Renotifies(call, set) ==
    /\ call.op = "properties_changed"
    /\ call.raised = NoError
    /\ call.inputs.obj = set.inputs.obj
    /\ call.inputs.interface = set.inputs.interface
    /\ set.inputs.member \in Range(call.inputs.names)

\* C24: when the first two calls are a set of a property with emit_changed
\* set that ended without an error and a properties_changed call that named
\* that property and ended without an error, the first two events broadcast
\* are one of each call, and both tell that the property has changed.
C24_DoubleEmission ==
    (history.on /\ Len(history.calls) >= 2
        /\ Notified(history.calls[1])
        /\ Renotifies(history.calls[2], history.calls[1])) =>
        /\ Len(history.sent) >= 2
        /\ EventOfSet(history.sent[1], history.calls[1])
        /\ \A k \in 1..2 : About(history.sent[k], history.calls[1].inputs.interface,
                                  history.calls[1].inputs.member)

\* a set of P and a properties_changed call naming P, two events
C24_Witness ==
    /\ history.on
    /\ Len(history.calls) = 2
    /\ Notified(history.calls[1])
    /\ Renotifies(history.calls[2], history.calls[1])
    /\ Len(history.sent) = 2
    /\ history.sent[1] = history.sent[2]


\* C25: a properties_changed call on a registered instance of a bound class
\* ends with "does not implement D-Bus interface" exactly when the interface
\* it is given is not one the document declares, and a call with no names for
\* an interface the document declares ends without an error.
C25_InterfaceRefusedIffUndeclared ==
    (last.op = "properties_changed" /\ decorated = "bound"
        /\ Registered(last.inputs.obj)) =>
        /\ last.raised.msg = "does not implement D-Bus interface"
              <=> last.inputs.interface \notin InterfaceNames
        /\ (last.inputs.interface \in InterfaceNames /\ last.inputs.names = << >>) =>
              last.raised = NoError


\* the operations that act on one instance and may broadcast for it
InstanceOps == SetOps \cup {"handle_signal_method", "properties_changed"}

\* C26: a property set, a signal emission or a properties_changed call on
\* one instance broadcasts only at that instance's connection and path and
\* leaves every other instance's property values, registration and exports
\* as they were; register_object on one instance leaves every other
\* instance's registration as it was.
C26_InstancesApart ==
    [][(last'.op \in InstanceOps \cup {"register_object"}) =>
          LET obj == last'.inputs.obj IN
          /\ \A k \in DOMAIN last'.events :
                /\ last'.events[k].connection = registration[obj].connection
                /\ last'.events[k].path = registration[obj].path
          /\ \A other \in Objs \ {obj} :
                /\ pstate'[other] = pstate[other]
                /\ registration'[other] = registration[other]
                /\ {x \in exported' : x.obj = other} = {x \in exported : x.obj = other}]_vars

\* both instances registered, at different connections and paths; a set on
\* o2 has broadcast at o2's path and the instances hold different values
C26_Witness ==
    /\ Registered("o1") /\ Registered("o2")
    /\ registration["o1"].path # registration["o2"].path
    /\ registration["o1"].connection # registration["o2"].connection
    /\ last.op \in SetOps
    /\ last.inputs.obj = "o2"
    /\ Len(last.events) = 1
    /\ last.events[1].path = registration["o2"].path
    /\ pstate["o1"] # pstate["o2"]


\* C27: no step taken once the class is bound changes the interface list, the
\* methods table, the properties table or a descriptor the properties table
\* refers to, whether the operation of the step ends with an error or not.
C27_BindingImmutable ==
    [][decorated = "bound" =>
          /\ def_interfaces' = def_interfaces
          /\ def_methods' = def_methods
          /\ def_properties' = def_properties
          /\ cls_dict' = cls_dict
          /\ decorated' = "bound"]_vars

\* an inbound method call whose handler raised, the tables in place
C27_Witness ==
    /\ decorated = "bound"
    /\ last.op = "on_method_call"
    /\ last.raised # NoError
    /\ last.inputs.member \in DOMAIN def_methods[last.inputs.interface]
    /\ Keys(def_methods) = Declared("method")
    /\ Keys(def_properties) = Declared("property")

-----------------------------------------------------------------------------
(* Accessor conflicts.                                                     *)

\* the getters and the setters the evaluated class body declares
Getters == {k \in DOMAIN declarations.body :
                declarations.body[k].decorator \in {"Property", "getter"}}

Setters == {k \in DOMAIN declarations.body :
                declarations.body[k].decorator \in {"DBusProperty", "setter"}}

\* C28: binding rejects a class that declares two getters or two setters
\* for the same property, and accepts a class that declares one getter and
\* one setter for it, whichever comes first.
C28_AccessorConflicts ==
    decorated # "pending" =>
        /\ (Cardinality(Getters) >= 2 \/ Cardinality(Setters) >= 2) => decorated = "failed"
        /\ (Cardinality(Getters) = 1 /\ Cardinality(Setters) = 1) => decorated = "bound"

-----------------------------------------------------------------------------
(* Emission and registration.                                              *)

\* the operations that broadcast on behalf of an instance
EmittingOps == {"handle_signal_method", "DBusProperty.__set__", "properties_changed"}

\* C29: nothing is broadcast on behalf of an instance on which register_object
\* has not stored a connection and a path, so in particular not before
\* register_object was called on it: a signal emitter call, a notifying
\* property set and properties_changed on such an instance emit nothing.
C29_NothingBeforeRegistration ==
    (last.op \in EmittingOps /\ registration[last.inputs.obj] = Unregistered)
        => last.events = << >>

\* a notifying property set on an instance that was never registered: the
\* setter ran, the notification ended in AttributeError and nothing was sent
C29_Witness ==
    /\ last.op = "DBusProperty.__set__"
    /\ registration[last.inputs.obj] = Unregistered
    /\ last.inputs.setter = "store"
    /\ last.raised.exc = "AttributeError"
    /\ last.events = << >>

-----------------------------------------------------------------------------
(* The value a failed set leaves behind.                                   *)

\* the step is a set through the descriptor that ended with an error
FailedSet == last = NoOp /\ last'.op \in SetOps /\ last'.raised # NoError

\* the value the user's setter has left for the property of the set
LeftBySetter ==
    IF last'.inputs.setter \in {"store", "store_raise"}
    THEN last'.inputs.value
    ELSE pstate[last'.inputs.obj][<<last'.inputs.interface, last'.inputs.member>>]

\* C30 as stated: whenever a property set through the descriptor ends with
\* an error, the instance's property value is the same as before the set.
C30_FailedSetLeavesValue ==
    [][FailedSet => pstate' = pstate]_vars

\* C30: a set that ends with an error leaves the property with the value the
\* user's setter left: the old value if there is no setter or the setter did
\* not store, the new value if the setter stored it before it raised or
\* before the notification failed for want of a registration; no other
\* property and no other instance is touched.
C30_FailedSetLeavesSettersValue ==
    [][FailedSet =>
          pstate' = [pstate EXCEPT ![last'.inputs.obj]
                        [<<last'.inputs.interface, last'.inputs.member>>] = LeftBySetter]]_vars

\* a notifying set on an unregistered instance that ended with AttributeError
\* and left the new value in place
C30_Witness ==
    /\ last.op = "DBusProperty.__set__"
    /\ registration[last.inputs.obj] = Unregistered
    /\ last.raised.exc = "AttributeError"
    /\ last.inputs.value # 0
    /\ pstate[last.inputs.obj][<<last.inputs.interface, last.inputs.member>>]
           = last.inputs.value

-----------------------------------------------------------------------------
(* Registration and the transport.                                         *)

\* every interface of the class is registered with the transport for the
\* instance, at the connection and path the instance has recorded
FullyExported(obj) ==
    \A k \in DOMAIN def_interfaces :
        Export(registration[obj].connection, registration[obj].path,
               def_interfaces[k], obj) \in exported

\* C31: an instance has a recorded connection and path only if every
\* interface of its class is registered with the transport at that path with
\* the closures of the instance; a register_object call in which the
\* transport refuses a registration leaves the instance without a recorded
\* connection and path.
C31_RecordedOnlyIfExported ==
    /\ \A obj \in instances : registration[obj] # Unregistered => FullyExported(obj)
    /\ (last.op = "register_object" /\ last.raised.exc = "GLib.Error")
           => registration[last.inputs.obj] = Unregistered

-----------------------------------------------------------------------------
(* The value a change event announces.                                     *)

\* C32: the value carried by the change event of a set equals the value a
\* property get issued right after the set returns, for every bound property,
\* also where the setter does not store the written value.
C32_EventCarriesReadableValue ==
    (last.op \in SetOps /\ last.raised = NoError) =>
        \A k \in DOMAIN last.events :
            \A name \in DOMAIN last.events[k].parameters.changed :
                last.events[k].parameters.changed[name] =
                    on_get_property(cls_dict, def_properties, pstate[last.inputs.obj],
                                    last.inputs.interface, name)

-----------------------------------------------------------------------------
(* Switching tracks.                                                       *)

\* the track switch_track is to leave as the current one
TrackAfter(self, track_id) ==
    IF 0 <= track_id /\ track_id < Len(self.tracklist)
    THEN self.tracklist[track_id + 1]
    ELSE self.current_track

\* the current track is found in the list at this index
CurrentAt(index) ==
    /\ ~find_current_track_in_tracklist(app).is_none
    /\ find_current_track_in_tracklist(app).index = index

\* C33: for every integer index, negative ones and an empty track list
\* included, switch_track never raises and leaves current_track unchanged
\* unless 0 <= index < len(tracklist), in which case current_track becomes
\* tracklist[index]; so next at the last track and prev at the first track
\* leave current_track unchanged.
C33_SwitchTrackInRange ==
    [][/\ (last = NoOp /\ last'.op = "switch_track") =>
             /\ last'.raised = NoError
             /\ app'.current_track = TrackAfter(app, last'.inputs.value)
             /\ app'.tracklist = app.tracklist
       /\ (last = NoOp /\ last'.op = "next" /\ CurrentAt(Len(app.tracklist) - 1)) =>
             app' = app
       /\ (last = NoOp /\ last'.op = "prev" /\ CurrentAt(0)) =>
             app' = app]_vars

====
